---- MODULE Spec2Model ----
(***************************************************************************)
(* A model of the villagevote (CivicSwipe) backend: the source connectors  *)
(* and their upsert, the roll-call ingestor with its citation parser and   *)
(* legislator matching, the per-measure match engine, and the endpoint     *)
(* cache.  Text values (identifiers, canonical keys, citations, names) are *)
(* sequences of one-character strings, so that formatting, case folding    *)
(* and pattern matching are computed rather than assumed.                  *)
(***************************************************************************)
EXTENDS Integers, Sequences, FiniteSets, TLC

VARIABLES
    measures,        \* rows of table measures (session view)
    measureSources,  \* rows of table measure_sources
    runs,            \* rows of table ingestion_runs
    officials,       \* rows of table officials
    voteEvents,      \* rows of table vote_events
    officialVotes,   \* rows of table official_votes
    userVotes,       \* rows of table user_votes
    userOfficials,   \* rows of table user_officials
    userProfiles,    \* rows of table user_profiles
    matchResults,    \* rows of table match_results
    cache,           \* the Redis cache: key -> entry, for the keys present
    nextId,          \* stands for uuid4(): the next fresh identifier
    hist,            \* what the last operations were and returned (history)
    probe,           \* input and output of the last pure-function application
    connectors,      \* rows of table connectors
    workers          \* the Celery worker processes: where each is in its task

vars == <<measures, measureSources, runs, officials, voteEvents, officialVotes,
          userVotes, userOfficials, userProfiles, matchResults, cache, nextId, hist, probe,
          connectors, workers>>

\* Python's None, among text values
None == <<"None">>

-----------------------------------------------------------------------------
(* Text: str.upper(), str.lower(), str.strip(), str.replace(), str(int)     *)

LowerLetters == <<"a","b","c","d","e","f","g","h","i","j","k","l","m",
                  "n","o","p","q","r","s","t","u","v","w","x","y","z">>
UpperLetters == <<"A","B","C","D","E","F","G","H","I","J","K","L","M",
                  "N","O","P","Q","R","S","T","U","V","W","X","Y","Z">>
DigitChars == <<"0","1","2","3","4","5","6","7","8","9">>

IsDigit(c) == \E i \in 1..10 : DigitChars[i] = c
IsSpace(c) == c \in {" ", "\t", "\n"}

UpperChar(c) ==
    IF \E i \in 1..26 : LowerLetters[i] = c
    THEN UpperLetters[CHOOSE i \in 1..26 : LowerLetters[i] = c]
    ELSE c

LowerChar(c) ==
    IF \E i \in 1..26 : UpperLetters[i] = c
    THEN LowerLetters[CHOOSE i \in 1..26 : UpperLetters[i] = c]
    ELSE c

Upper(s) == [i \in 1..Len(s) |-> UpperChar(s[i])]
Lower(s) == [i \in 1..Len(s) |-> LowerChar(s[i])]

RECURSIVE StripLeft(_)
StripLeft(s) ==
    IF s # <<>> /\ IsSpace(Head(s)) THEN StripLeft(Tail(s)) ELSE s

RECURSIVE StripRight(_)
StripRight(s) ==
    IF s # <<>> /\ IsSpace(s[Len(s)])
    THEN StripRight(SubSeq(s, 1, Len(s) - 1))
    ELSE s

Strip(s) == StripRight(StripLeft(s))

\* s.replace(" ", "-")
ReplaceSpaceByHyphen(s) == [i \in 1..Len(s) |-> IF s[i] = " " THEN "-" ELSE s[i]]

\* str(n) for a natural number
RECURSIVE NatToStr(_)
NatToStr(n) ==
    IF n < 10 THEN <<DigitChars[n + 1]>>
    ELSE NatToStr(n \div 10) \o <<DigitChars[(n % 10) + 1]>>

\* sub in s
RECURSIVE ContainsFrom(_, _, _)
ContainsFrom(s, sub, i) ==
    IF i + Len(sub) - 1 > Len(s) THEN FALSE
    ELSE IF SubSeq(s, i, i + Len(sub) - 1) = sub THEN TRUE
    ELSE ContainsFrom(s, sub, i + 1)

Contains(s, sub) == ContainsFrom(s, sub, 1)

StartsWith(s, pre) == Len(s) >= Len(pre) /\ SubSeq(s, 1, Len(pre)) = pre

RECURSIVE JoinWith(_, _)
\* sep.join(parts)
JoinWith(parts, sep) ==
    IF parts = <<>> THEN <<>>
    ELSE IF Len(parts) = 1 THEN parts[1]
    ELSE parts[1] \o sep \o JoinWith(Tail(parts), sep)

-----------------------------------------------------------------------------
(* Words of the source vocabulary, as text                                  *)

T_us == <<"u","s">>
T_congress == <<"c","o","n","g","r","e","s","s">>
T_az == <<"a","z">>
T_phoenix == <<"p","h","o","e","n","i","x">>
T_passed == <<"p","a","s","s","e","d">>
T_failed == <<"f","a","i","l","e","d">>
T_rejected == <<"r","e","j","e","c","t","e","d">>
T_agreed == <<"a","g","r","e","e","d">>
T_agreed_to == T_agreed \o <<" ","t","o">>
T_confirmed == <<"c","o","n","f","i","r","m","e","d">>
T_committee == <<"c","o","m","m","i","t","t","e","e">>
T_referred_to == <<"r","e","f","e","r","r","e","d"," ","t","o">>
T_introduced == <<"i","n","t","r","o","d","u","c","e","d">>
T_sponsor == <<"s","p","o","n","s","o","r">>
T_scheduled == <<"s","c","h","e","d","u","l","e","d">>
T_calendar == <<"c","a","l","e","n","d","a","r">>
T_tabled == <<"t","a","b","l","e","d">>
T_withdrawn == <<"w","i","t","h","d","r","a","w","n">>
T_became_public_law ==
    <<"b","e","c","a","m","e"," ","p","u","b","l","i","c"," ","l","a","w">>
T_signed_by_president ==
    <<"s","i","g","n","e","d"," ","b","y"," ","p","r","e","s","i","d","e","n","t">>
T_house_roll_call_vote ==
    <<"H","o","u","s","e"," ","r","o","l","l"," ","c","a","l","l"," ",
      "v","o","t","e",":"," ">>

Colon == <<":">>
Hyphen == <<"-">>

-----------------------------------------------------------------------------
(* connectors/federal.py: normalisation                                     *)

CURRENT_CONGRESS == 119

\* dict.get(key, default): a dict is a record, a missing key a missing field
Get(d, key, default) == IF key \in DOMAIN d THEN d[key] ELSE default

FederalMapStatus(action_text) ==
    LET a == Lower(action_text) IN
    IF Contains(a, T_became_public_law) \/ Contains(a, T_signed_by_president)
        THEN "passed"
    ELSE IF Contains(a, T_passed) \/ Contains(a, T_agreed_to) THEN "passed"
    ELSE IF Contains(a, T_failed) \/ Contains(a, T_rejected) THEN "failed"
    ELSE IF Contains(a, T_referred_to) \/ Contains(a, T_committee)
        THEN "in_committee"
    ELSE IF Contains(a, T_introduced) \/ Contains(a, T_sponsor) THEN "introduced"
    ELSE IF Contains(a, T_scheduled) \/ Contains(a, T_calendar) THEN "scheduled"
    ELSE IF Contains(a, T_tabled) THEN "tabled"
    ELSE IF Contains(a, T_withdrawn) THEN "withdrawn"
    ELSE "unknown"

\* the text is an ISO date YYYY-MM-DD
IsIsoDate(v) ==
    /\ Len(v) = 10
    /\ v[5] = "-" /\ v[8] = "-"
    /\ \A i \in {1, 2, 3, 4, 6, 7, 9, 10} : IsDigit(v[i])

\* datetime.fromisoformat(v) under try/except (ValueError, TypeError)
ParseIsoDate(v) == IF v # None /\ IsIsoDate(v) THEN v ELSE None

\* f"us:congress:{congress}:{bill_type}:{bill_number}"
FederalCanonicalKey(congress, bill_type, bill_number) ==
    JoinWith(<<T_us, T_congress, NatToStr(congress), bill_type, bill_number>>,
             Colon)

\* f"{congress}-{bill_type}-{bill_number}"
FederalExternalId(congress, bill_type, bill_number) ==
    JoinWith(<<NatToStr(congress), bill_type, bill_number>>, Hyphen)

Raised == [raised |-> TRUE]

\* A bill dict may have the keys type, number, congress, title, latestAction
\* (None, or a dict whose text is the value here) and introducedDate.
FederalMapBillToMeasure(bill) ==
    IF Get(bill, "type", <<>>) = None \/ Get(bill, "latestAction", <<>>) = None
    THEN Raised      \* None.lower() / None.get(): AttributeError
    ELSE
    LET bill_type == Lower(Get(bill, "type", <<>>))
        bill_number == Get(bill, "number", <<>>)
        congress == Get(bill, "congress", CURRENT_CONGRESS)
        text == Get(bill, "latestAction", <<>>)
    IN  [raised |-> FALSE,
         source |-> "congress",
         external_id |-> FederalExternalId(congress, bill_type, bill_number),
         title |-> Get(bill, "title", Upper(bill_type) \o <<" ">> \o bill_number),
         level |-> "federal",
         status |-> FederalMapStatus(text),
         introduced_at |-> IF "introducedDate" \in DOMAIN bill
                           THEN ParseIsoDate(bill.introducedDate) ELSE None,
         topic_tags |-> <<>>,
         canonical_key |-> FederalCanonicalKey(congress, bill_type, bill_number)]

FederalGetChamber(bill_type) ==
    IF StartsWith(bill_type, <<"h">>) THEN "house"
    ELSE IF StartsWith(bill_type, <<"s">>) THEN "senate"
    ELSE "house"

-----------------------------------------------------------------------------
(* The eight bill types and the written forms of their prefixes            *)

BillTypeCodes ==
    << <<"h","r">>, <<"s">>, <<"h","j","r","e","s">>, <<"s","j","r","e","s">>,
       <<"h","c","o","n","r","e","s">>, <<"s","c","o","n","r","e","s">>,
       <<"h","r","e","s">>, <<"s","r","e","s">> >>

\* the letter groups of a prefix: H.R. is H + R, H.Con.Res. is H + CON + RES
PrefixGroups(code) ==
    CASE code = <<"h","r">> -> << <<"H">>, <<"R">> >>
      [] code = <<"s">> -> << <<"S">> >>
      [] code = <<"h","j","r","e","s">> -> << <<"H">>, <<"J">>, <<"R","E","S">> >>
      [] code = <<"s","j","r","e","s">> -> << <<"S">>, <<"J">>, <<"R","E","S">> >>
      [] code = <<"h","c","o","n","r","e","s">> ->
            << <<"H">>, <<"C","O","N">>, <<"R","E","S">> >>
      [] code = <<"s","c","o","n","r","e","s">> ->
            << <<"S">>, <<"C","O","N">>, <<"R","E","S">> >>
      [] code = <<"h","r","e","s">> -> << <<"H">>, <<"R","E","S">> >>
      [] code = <<"s","r","e","s">> -> << <<"S">>, <<"R","E","S">> >>

RECURSIVE Concat(_)
Concat(parts) == IF parts = <<>> THEN <<>> ELSE Head(parts) \o Concat(Tail(parts))

PrefixStyles == {"compact", "dotted", "spaced"}

\* "HJRES", "H.J.RES.", "H J RES"
PrefixForm(code, style) ==
    LET g == PrefixGroups(code) IN
    CASE style = "compact" -> Concat(g)
      [] style = "dotted" -> Concat([i \in 1..Len(g) |-> g[i] \o <<".">>])
      [] style = "spaced" -> JoinWith(g, <<" ">>)

\* type_map of _extract_bill_from_house_vote: written form -> code, or None
HouseVoteTypeMap(leg_type) ==
    LET hits == {i \in 1..Len(BillTypeCodes) :
                    \E st \in PrefixStyles : PrefixForm(BillTypeCodes[i], st) = leg_type}
    IN  IF hits = {} THEN None ELSE BillTypeCodes[CHOOSE i \in hits : TRUE]

-----------------------------------------------------------------------------
(* connectors/federal.py: bill-like dicts from laws and House votes        *)

T_became_public_law_cap ==
    <<"B","e","c","a","m","e"," ","P","u","b","l","i","c"," ","L","a","w">>
T_public_law_cap == <<"P","u","b","l","i","c"," ","L","a","w"," ">>

\* returns Raised or [raised |-> FALSE, bill |-> the bill-like dict]
FederalMapLawToBill(law, congress) ==
    IF Get(law, "type", <<>>) = None \/ Get(law, "latestAction", <<>>) = None
    THEN Raised
    ELSE
    LET bill_type == Lower(Get(law, "type", <<"h","r">>))
        bill_number == Get(law, "number", <<>>)
    IN  [raised |-> FALSE,
         bill |-> [type |-> bill_type,
                   number |-> bill_number,
                   congress |-> congress,
                   title |-> Get(law, "title", T_public_law_cap \o bill_number),
                   latestAction |-> Get(law, "latestAction", T_became_public_law_cap),
                   introducedDate |-> None]]

\* returns [skip |-> TRUE] (not linked to a bill) or the bill-like dict
FederalExtractBillFromHouseVote(vote, congress) ==
    LET rawType == Get(vote, "legislationType", None)
        leg_type == Upper(Strip(IF rawType = None THEN <<>> ELSE rawType))
        leg_num == Get(vote, "legislationNumber", None)
        bill_type == HouseVoteTypeMap(leg_type)
    IN  IF leg_num = None \/ leg_num = <<>> THEN [skip |-> TRUE]
        ELSE IF bill_type = None THEN [skip |-> TRUE]
        ELSE [skip |-> FALSE,
              bill |-> [type |-> bill_type,
                        number |-> leg_num,
                        congress |-> congress,
                        title |-> Get(vote, "title", leg_type \o <<" ">> \o leg_num),
                        latestAction |->
                            T_house_roll_call_vote \o Get(vote, "result", <<>>),
                        introducedDate |-> None]]

-----------------------------------------------------------------------------
(* The upsert shared by the connectors, on the run's database session.     *)
(* A run context is the session's view of the tables (measures, sources),  *)
(* the view at the last commit (base), whether the session is still usable *)
(* (ok: a failed flush rolls the transaction back and every later call     *)
(* raises PendingRollbackError), the stats dict and seen_external_ids.     *)

NewStats ==
    [bills_fetched |-> 0, new_measures |-> 0, updated_measures |-> 0,
     errors |-> 0, laws_fetched |-> 0, voted_bills_fetched |-> 0]

Bump(stats, key) == [stats EXCEPT ![key] = @ + 1]

NewContext(ms, srcs, id, stats) ==
    [measures |-> ms, sources |-> srcs, nextId |-> id, ok |-> TRUE,
     stats |-> stats, seen |-> {},
     base |-> [measures |-> ms, sources |-> srcs, nextId |-> id]]

\* the flush failed: the transaction is rolled back, the session unusable
FailFlush(ctx) ==
    [ctx EXCEPT !.measures = ctx.base.measures, !.sources = ctx.base.sources,
                !.nextId = ctx.base.nextId, !.ok = FALSE]

FindMeasureMut(ms, source, external_id) == {}

\* select(Measure).where(source == .., external_id == ..)
FindMeasure(ms, source, external_id) ==
    {m \in ms : m.source = source /\ m.external_id = external_id}

\* keys of measure_data whose value is never None (literals, computed lists)
NeverNoneKeys == {"source", "level", "status", "topic_tags"}

\* for key, value in measure_data.items(): if value is not None: setattr(..)
UpdateExisting(row, md) ==
    [k \in DOMAIN row |->
        IF k \in DOMAIN md /\ k # "raised" /\ (k \in NeverNoneKeys \/ md[k] # None)
        THEN md[k] ELSE row[k]]

\* Measure(**measure_data): the columns not given take their defaults
NewMeasure(id, md) ==
    [id |-> id, source |-> md.source, external_id |-> md.external_id,
     title |-> md.title, level |-> md.level, status |-> md.status,
     introduced_at |-> Get(md, "introduced_at", None),
     scheduled_for |-> Get(md, "scheduled_for", None),
     topic_tags |-> md.topic_tags, summary_short |-> None,
     canonical_key |-> md.canonical_key]

NewMeasureSource(id, measure_id, label, url) ==
    [id |-> id, measure_id |-> measure_id, label |-> label, url |-> url,
     ctype |-> "html", is_primary |-> TRUE]

\* the lookup found nothing although the row is there: every record inserts
UpsertMeasureMut(ctx, md, label, url) ==
    [raised |-> FALSE,
     ctx |-> [ctx EXCEPT
        !.measures = @ \cup {NewMeasure(ctx.nextId, md)},
        !.sources = @ \cup
            {NewMeasureSource(ctx.nextId + 1, ctx.nextId, label, url)},
        !.nextId = @ + 2,
        !.stats = Bump(@, "new_measures")]]

\* lookup by (source, external_id); update the row found, or insert the
\* measure and its primary source link.  [raised, ctx]
UpsertMeasure(ctx, md, label, url) ==
    IF ~ctx.ok THEN [raised |-> TRUE, ctx |-> ctx]
    ELSE
    LET existing == FindMeasure(ctx.measures, md.source, md.external_id) IN
    IF existing # {}
    THEN LET row == CHOOSE r \in existing : TRUE IN
         [raised |-> FALSE,
          ctx |-> [ctx EXCEPT
             !.measures = (@ \ {row}) \cup {UpdateExisting(row, md)},
             !.stats = Bump(@, "updated_measures")]]
    ELSE IF md.title = None
    THEN [raised |-> TRUE, ctx |-> FailFlush(ctx)]   \* title is NOT NULL
    ELSE [raised |-> FALSE,
          ctx |-> [ctx EXCEPT
             !.measures = @ \cup {NewMeasure(ctx.nextId, md)},
             !.sources = @ \cup
                {NewMeasureSource(ctx.nextId + 1, ctx.nextId, label, url)},
             !.nextId = @ + 2,
             !.stats = Bump(@, "new_measures")]]

T_congress_gov == <<"C","o","n","g","r","e","s","s",".","g","o","v">>
T_congress_url == <<"c","o","n","g","r","e","s","s",".","g","o","v","/","b","i","l","l","/">>

\* f".../bill/{congress}th-congress/{chamber}-bill/{bill_number}"
FederalSourceUrl(bill, congress) ==
    LET bill_type == Lower(Get(bill, "type", <<>>))
        chamber == IF FederalGetChamber(bill_type) = "house"
                   THEN <<"h","o","u","s","e">> ELSE <<"s","e","n","a","t","e">>
    IN  T_congress_url \o NatToStr(congress) \o <<"/">> \o chamber \o <<"/">>
            \o Get(bill, "number", <<>>)

FederalUpsertBill(ctx, bill, congress) ==
    LET md == FederalMapBillToMeasure(bill) IN
    IF md.raised THEN [raised |-> TRUE, ctx |-> ctx]
    ELSE UpsertMeasure(ctx, md, T_congress_gov, FederalSourceUrl(bill, congress))

-----------------------------------------------------------------------------
(* connectors/federal.py: FederalConnector.run                             *)

CountError(r) == IF r.raised THEN [r.ctx EXCEPT !.stats = Bump(@, "errors")] ELSE r.ctx

\* fetch_all: bills_fetched += 1 runs only after the upsert returned
CountFetched(r) ==
    IF r.raised THEN [r.ctx EXCEPT !.stats = Bump(@, "errors")]
    ELSE [r.ctx EXCEPT !.stats = Bump(@, "bills_fetched")]

\* else-branch: for bill in bills: try _upsert_bill except errors += 1
RECURSIVE FederalDefaultLoop(_, _, _)
FederalDefaultLoop(ctx, bills, congress) ==
    IF bills = <<>> THEN ctx
    ELSE FederalDefaultLoop(CountError(FederalUpsertBill(ctx, Head(bills), congress)),
                            Tail(bills), congress)

\* fetch_all, step 1: enacted laws
RECURSIVE FederalLawLoop(_, _, _)
FederalLawLoop(ctx, laws, congress) ==
    IF laws = <<>> THEN ctx
    ELSE
    LET m == FederalMapLawToBill(Head(laws), congress) IN
    IF m.raised
    THEN FederalLawLoop([ctx EXCEPT !.stats = Bump(@, "errors")], Tail(laws), congress)
    ELSE
    LET ext_id == FederalExternalId(congress, m.bill.type, m.bill.number)
        seen == [ctx EXCEPT !.seen = @ \cup {ext_id}]
    IN  FederalLawLoop(CountFetched(FederalUpsertBill(seen, m.bill, congress)),
                       Tail(laws), congress)

\* fetch_all, step 2: bills that had House floor votes
RECURSIVE FederalHouseVoteLoop(_, _, _)
FederalHouseVoteLoop(ctx, votes, congress) ==
    IF votes = <<>> THEN ctx
    ELSE
    LET x == FederalExtractBillFromHouseVote(Head(votes), congress) IN
    IF x.skip THEN FederalHouseVoteLoop(ctx, Tail(votes), congress)
    ELSE
    LET ext_id == FederalExternalId(congress, x.bill.type, x.bill.number) IN
    IF ext_id \in ctx.seen THEN FederalHouseVoteLoop(ctx, Tail(votes), congress)
    ELSE
    LET seen == [ctx EXCEPT !.seen = @ \cup {ext_id}]
        r == FederalUpsertBill(seen, x.bill, congress)
        c == IF r.raised THEN CountError(r)
             ELSE [r.ctx EXCEPT !.stats = Bump(Bump(@, "bills_fetched"),
                                               "voted_bills_fetched")]
    IN  FederalHouseVoteLoop(c, Tail(votes), congress)

\* fetch_all, step 3: the most recent bills
RECURSIVE FederalRecentLoop(_, _, _)
FederalRecentLoop(ctx, bills, congress) ==
    IF bills = <<>> THEN ctx
    ELSE
    LET md == FederalMapBillToMeasure(Head(bills)) IN
    IF md.raised
    THEN FederalRecentLoop([ctx EXCEPT !.stats = Bump(@, "errors")], Tail(bills), congress)
    ELSE IF md.external_id \in ctx.seen
    THEN FederalRecentLoop(ctx, Tail(bills), congress)
    ELSE
    LET seen == [ctx EXCEPT !.seen = @ \cup {md.external_id}] IN
    FederalRecentLoop(CountFetched(FederalUpsertBill(seen, Head(bills), congress)),
                      Tail(bills), congress)

\* the body of the try block: the context after all records
FederalRunBody(ctx, inp) ==
    IF inp.fetch_all
    THEN LET c0 == [ctx EXCEPT !.stats.laws_fetched = Len(inp.laws)]
             c1 == FederalLawLoop(c0, inp.laws, inp.congress)
             c2 == FederalHouseVoteLoop(c1, inp.house_votes, inp.congress)
         IN  FederalRecentLoop(c2, inp.bills, inp.congress)
    ELSE FederalDefaultLoop([ctx EXCEPT !.stats.bills_fetched = Len(inp.bills)],
                            inp.bills, inp.congress)

\* The end of run(): run.status, finished_at and stats are set and committed.
\* With the session unusable the commit raises, in the try block and again
\* in the except block, so run() raises and nothing of the run is stored.
\* [measures, sources, runs, nextId, returned, stats]
FinishRun(ctx, runId, name, allRuns) ==
    IF ctx.ok
    THEN [measures |-> ctx.measures, sources |-> ctx.sources,
          runs |-> allRuns \cup {[id |-> runId, connector |-> name,
                                  status |-> "succeeded", finished |-> TRUE,
                                  error |-> None, stats |-> ctx.stats]},
          nextId |-> ctx.nextId, returned |-> TRUE, stats |-> ctx.stats]
    ELSE [measures |-> ctx.base.measures, sources |-> ctx.base.sources,
          runs |-> allRuns, nextId |-> runId, returned |-> FALSE,
          stats |-> ctx.stats]

\* run(): the IngestionRun row takes the first fresh id
FederalRunResult(ms, srcs, allRuns, id, inp) ==
    FinishRun(FederalRunBody(NewContext(ms, srcs, id + 1, NewStats), inp),
              id, "congress", allRuns)

-----------------------------------------------------------------------------
(* connectors/arizona.py                                                   *)

T_signed == <<"s","i","g","n","e","d">>
T_vetoed == <<"v","e","t","o","e","d">>
T_read == <<"r","e","a","d">>
T_held == <<"h","e","l","d">>
T_arizona_legislature ==
    <<"A","r","i","z","o","n","a"," ","L","e","g","i","s","l","a","t","u","r","e">>
T_azleg_url == <<"a","z","l","e","g",".","g","o","v","/">>
T_htm == <<".","h","t","m">>

\* the argument is bill.get("latest_action_description", "")
ArizonaMapStatus(description) ==
    LET a == Lower(description) IN
    IF Contains(a, T_passed) \/ Contains(a, T_signed) THEN "passed"
    ELSE IF Contains(a, T_failed) \/ Contains(a, T_vetoed) THEN "failed"
    ELSE IF Contains(a, T_committee) THEN "in_committee"
    ELSE IF Contains(a, T_introduced) \/ Contains(a, T_read) THEN "introduced"
    ELSE IF Contains(a, T_calendar) \/ Contains(a, T_scheduled) THEN "scheduled"
    ELSE IF Contains(a, T_tabled) \/ Contains(a, T_held) THEN "tabled"
    ELSE IF Contains(a, T_withdrawn) THEN "withdrawn"
    ELSE "unknown"

\* f"az-{session}-{identifier}".lower().replace(" ", "-")
ArizonaExternalId(session, identifier) ==
    ReplaceSpaceByHyphen(Lower(JoinWith(<<T_az, session, identifier>>, Hyphen)))

\* f"us:az:{session}:{identifier}".lower()
ArizonaCanonicalKey(session, identifier) ==
    Lower(JoinWith(<<T_us, T_az, session, identifier>>, Colon))

\* [t for t in topics if t][:10]
FirstTenNonEmpty(topics) ==
    LET keep == SelectSeq(topics, LAMBDA t : t # <<>>) IN
    SubSeq(keep, 1, IF Len(keep) < 10 THEN Len(keep) ELSE 10)

ArizonaMapBillToMeasure(bill) ==
    IF Get(bill, "latest_action_description", <<>>) = None
    THEN Raised      \* None.lower(): AttributeError
    ELSE
    LET identifier == Get(bill, "identifier", <<>>)
        session == Get(bill, "session", <<>>)
        first_action == Get(bill, "first_action_date", None)
    IN  [raised |-> FALSE,
         source |-> "openstates",
         external_id |-> ArizonaExternalId(session, identifier),
         title |-> Get(bill, "title", identifier),
         level |-> "state",
         status |-> ArizonaMapStatus(Get(bill, "latest_action_description", <<>>)),
         introduced_at |-> IF first_action = None \/ first_action = <<>>
                           THEN None ELSE ParseIsoDate(first_action),
         topic_tags |-> FirstTenNonEmpty(Get(bill, "classification", <<>>)
                                            \o Get(bill, "subject", <<>>)),
         canonical_key |-> ArizonaCanonicalKey(session, identifier)]

ArizonaGetBillUrl(bill) ==
    LET openstates_url == Get(bill, "openstates_url", None)
        urls == SelectSeq(Get(bill, "sources", <<>>),
                          LAMBDA u : u # None /\ u # <<>>)
    IN  IF openstates_url # None /\ openstates_url # <<>> THEN openstates_url
        ELSE IF urls # <<>> THEN Head(urls)
        ELSE T_azleg_url \o Get(bill, "session", <<>>) \o <<"/">>
                \o Get(bill, "identifier", <<>>) \o T_htm

ArizonaUpsertBill(ctx, bill) ==
    LET md == ArizonaMapBillToMeasure(bill) IN
    IF md.raised THEN [raised |-> TRUE, ctx |-> ctx]
    ELSE UpsertMeasure(ctx, md, T_arizona_legislature, ArizonaGetBillUrl(bill))

NewArizonaStats ==
    [bills_fetched |-> 0, new_measures |-> 0, updated_measures |-> 0, errors |-> 0]

RECURSIVE ArizonaBillLoop(_, _)
ArizonaBillLoop(ctx, bills) ==
    IF bills = <<>> THEN ctx
    ELSE ArizonaBillLoop(CountError(ArizonaUpsertBill(ctx, Head(bills))), Tail(bills))

\* for page in range(1, pages + 1): inp.pages[page] is what the page returned
RECURSIVE ArizonaPageLoop(_, _)
ArizonaPageLoop(ctx, pages) ==
    IF pages = <<>> THEN ctx
    ELSE LET bills == Head(pages)
             c == [ctx EXCEPT !.stats.bills_fetched = @ + Len(bills)]
         IN  ArizonaPageLoop(ArizonaBillLoop(c, bills), Tail(pages))

ArizonaRunResult(ms, srcs, allRuns, id, inp) ==
    FinishRun(ArizonaPageLoop(NewContext(ms, srcs, id + 1, NewArizonaStats), inp.pages),
              id, "arizona", allRuns)

-----------------------------------------------------------------------------
(* connectors/phoenix_legistar.py                                          *)

T_approved == <<"a","p","p","r","o","v","e","d">>
T_adopted == <<"a","d","o","p","t","e","d">>
T_denied == <<"d","e","n","i","e","d">>
T_continued == <<"c","o","n","t","i","n","u","e","d">>
T_postponed == <<"p","o","s","t","p","o","n","e","d">>
T_council == <<"c","o","u","n","c","i","l">>
T_planning == <<"p","l","a","n","n","i","n","g">>
T_zoning == <<"z","o","n","i","n","g">>
T_city_council == <<"c","i","t","y"," ","c","o","u","n","c","i","l">>
T_unknown == <<"u","n","k","n","o","w","n">>
T_untitled ==
    <<"U","n","t","i","t","l","e","d"," ","A","g","e","n","d","a"," ","I","t","e","m">>
T_phoenix_legistar ==
    <<"P","h","o","e","n","i","x"," ","L","e","g","i","s","t","a","r">>
T_meeting_url ==
    <<"M","e","e","t","i","n","g","D","e","t","a","i","l",".","a","s","p","x","?","I","D","=">>

MaxTitleLen == 500

PhoenixMapStatus(action) ==
    IF action = None \/ action = <<>> THEN "scheduled"
    ELSE
    LET a == Lower(action) IN
    IF Contains(a, T_approved) \/ Contains(a, T_passed) \/ Contains(a, T_adopted)
        THEN "passed"
    ELSE IF Contains(a, T_denied) \/ Contains(a, T_rejected) \/ Contains(a, T_failed)
        THEN "failed"
    ELSE IF Contains(a, T_tabled) \/ Contains(a, T_continued) \/ Contains(a, T_postponed)
        THEN "tabled"
    ELSE IF Contains(a, T_withdrawn) THEN "withdrawn"
    ELSE "scheduled"

\* MM/DD/YYYY
IsUsDate(v) ==
    /\ Len(v) = 10
    /\ v[3] = "/" /\ v[6] = "/"
    /\ \A i \in {1, 2, 4, 5, 7, 8, 9, 10} : IsDigit(v[i])

\* YYYY-MM-DDTHH:MM:SS
IsIsoDateTime(v) ==
    /\ Len(v) = 19
    /\ IsIsoDate(SubSeq(v, 1, 10))
    /\ v[11] = "T" /\ v[14] = ":" /\ v[17] = ":"
    /\ \A i \in {12, 13, 15, 16, 18, 19} : IsDigit(v[i])

\* event_date.split()[0]
RECURSIVE FirstWord(_)
FirstWord(s) ==
    IF s = <<>> \/ IsSpace(Head(s)) THEN <<>> ELSE <<Head(s)>> \o FirstWord(Tail(s))

\* strptime with '%m/%d/%Y', '%Y-%m-%d', '%Y-%m-%dT%H:%M:%S' in turn; the value
\* is written YYYY-MM-DD, with the time of day when the text has one
PhoenixParseEventDate(event_date) ==
    IF event_date = None \/ event_date = <<>> THEN None
    ELSE
    LET w == FirstWord(StripLeft(event_date)) IN
    IF IsUsDate(w)
        THEN SubSeq(w, 7, 10) \o <<"-">> \o SubSeq(w, 1, 2) \o <<"-">> \o SubSeq(w, 4, 5)
    ELSE IF IsIsoDate(w) THEN w
    ELSE IF IsIsoDateTime(w) THEN w
    ELSE None

PhoenixTopics(body_name) ==
    LET b == Lower(IF body_name = None THEN <<>> ELSE body_name) IN
    (IF Contains(b, T_council) THEN << T_city_council >> ELSE <<>>)
    \o (IF Contains(b, T_planning) THEN << T_planning >> ELSE <<>>)
    \o (IF Contains(b, T_zoning) THEN << T_zoning >> ELSE <<>>)

PhoenixMapEventToMeasure(event, item) ==
    LET event_id == Get(event, "EventId", T_unknown)
        item_id == Get(item, "EventItemId", Get(item, "EventItemAgendaNumber", T_unknown))
        external_id == JoinWith(<<T_phoenix, event_id, item_id>>, Hyphen)
        title == Get(item, "EventItemTitle", T_untitled)
    IN  IF title = None THEN Raised       \* len(None): TypeError
        ELSE
        [raised |-> FALSE,
         source |-> "legistar",
         external_id |-> external_id,
         title |-> IF Len(title) > MaxTitleLen
                   THEN SubSeq(title, 1, MaxTitleLen - 3) \o <<".",".",".">>
                   ELSE title,
         level |-> "city",
         status |-> PhoenixMapStatus(Get(item, "EventItemActionName", None)),
         scheduled_for |-> PhoenixParseEventDate(Get(event, "EventDate", None)),
         topic_tags |-> PhoenixTopics(Get(event, "EventBodyName", None)),
         canonical_key |-> JoinWith(<<T_us, T_az, T_phoenix, external_id>>, Colon)]

PhoenixSourceUrl(event, item) ==
    LET matter == Get(item, "EventItemMatterUrl", None)
        eurl == Get(event, "EventUrl", None)
    IN  IF matter # None /\ matter # <<>> THEN matter
        ELSE IF eurl # None /\ eurl # <<>> THEN eurl
        ELSE T_meeting_url \o event.EventId

PhoenixUpsertItem(ctx, event, item) ==
    LET md == PhoenixMapEventToMeasure(event, item) IN
    IF md.raised THEN [raised |-> TRUE, ctx |-> ctx]
    ELSE UpsertMeasure(ctx, md, T_phoenix_legistar, PhoenixSourceUrl(event, item))

NewPhoenixStats ==
    [events_fetched |-> 0, items_fetched |-> 0, new_measures |-> 0,
     updated_measures |-> 0, errors |-> 0]

RECURSIVE PhoenixItemLoop(_, _, _)
PhoenixItemLoop(ctx, event, items) ==
    IF items = <<>> THEN ctx
    ELSE PhoenixItemLoop(CountError(PhoenixUpsertItem(ctx, event, Head(items))),
                         event, Tail(items))

\* for event in events: an entry is the event dict and the agenda items that
\* get_event_items(event_id) returns for it
RECURSIVE PhoenixEventLoop(_, _)
PhoenixEventLoop(ctx, events) ==
    IF events = <<>> THEN ctx
    ELSE
    LET event == Head(events).event
        items == Head(events).items
        event_id == Get(event, "EventId", None)
    IN  IF event_id = None \/ event_id = <<>>
        THEN PhoenixEventLoop(ctx, Tail(events))
        ELSE PhoenixEventLoop(
                PhoenixItemLoop([ctx EXCEPT !.stats.items_fetched = @ + Len(items)],
                                event, items),
                Tail(events))

\* events = events[:max_events]
PhoenixRunResult(ms, srcs, allRuns, id, inp) ==
    LET events == SubSeq(inp.events, 1,
                         IF Len(inp.events) < inp.max_events
                         THEN Len(inp.events) ELSE inp.max_events)
        c0 == [NewContext(ms, srcs, id + 1, NewPhoenixStats)
                 EXCEPT !.stats.events_fetched = Len(events)]
    IN  FinishRun(PhoenixEventLoop(c0, events), id, "phoenix_legistar", allRuns)

-----------------------------------------------------------------------------
(* What the sources return: the records the connector runs draw from       *)

MaxBatch == 2       \* records in one fetched list
MaxRuns == 2        \* ingestion runs in one behaviour

BoundedSeq(S, n) == UNION {[1..k -> S] : k \in 0..n}

D_jan3 == <<"2","0","2","5","-","0","1","-","0","3">>
Cap_passed == <<"P","a","s","s","e","d"," ","H","o","u","s","e">>

FederalBillPool ==
    { [type |-> <<"H","R">>, number |-> <<"1">>, congress |-> 119,
       title |-> <<"A">>, latestAction |-> Cap_passed, introducedDate |-> D_jan3],
      \* the same bill with fewer fields filled in
      [type |-> <<"h","r">>, number |-> <<"1">>, title |-> <<"B">>],
      [type |-> <<"S">>, number |-> <<"1">>, congress |-> 119,
       title |-> <<"C">>, latestAction |-> T_referred_to],
      \* malformed: "latestAction": null
      [type |-> <<"S">>, number |-> <<"2">>, title |-> <<"D">>, latestAction |-> None],
      \* "title": null, which the measures table rejects
      [type |-> <<"H","R">>, number |-> <<"2">>, title |-> None] }

FederalLawPool ==
    { [type |-> <<"S">>, number |-> <<"1">>, title |-> <<"L">>,
       latestAction |-> T_became_public_law_cap],
      [number |-> <<"3">>, latestAction |-> None] }

FederalHouseVotePool ==
    { [legislationType |-> <<"H","R">>, legislationNumber |-> <<"1">>,
       result |-> <<"F","a","i","l","e","d">>],
      \* a procedural vote
      [legislationType |-> None, result |-> <<"P","a","s","s","e","d">>] }

FederalInputs ==
    { [fetch_all |-> FALSE, congress |-> CURRENT_CONGRESS, bills |-> b,
       laws |-> <<>>, house_votes |-> <<>>] : b \in BoundedSeq(FederalBillPool, MaxBatch) }
    \cup
    { [fetch_all |-> TRUE, congress |-> CURRENT_CONGRESS, bills |-> b,
       laws |-> l, house_votes |-> v] :
         b \in BoundedSeq(FederalBillPool, 1),
         l \in BoundedSeq(FederalLawPool, 1),
         v \in BoundedSeq(FederalHouseVotePool, 1) }

ArizonaBillPool ==
    { [identifier |-> <<"H","B"," ","1">>, session |-> <<"5","6">>,
       title |-> <<"E">>, latest_action_description |-> <<"S","i","g","n","e","d">>,
       first_action_date |-> D_jan3, subject |-> << <<"t","a","x">> >>],
      \* another bill whose external id is the same after replace(" ", "-")
      [identifier |-> <<"h","b","-","1">>, session |-> <<"5","6">>, title |-> <<"F">>],
      [identifier |-> <<"S","B"," ","2">>, session |-> <<"5","6">>,
       latest_action_description |-> None] }

ArizonaInputs == { [pages |-> << b >>] : b \in BoundedSeq(ArizonaBillPool, MaxBatch) }

PhoenixEvent == [EventId |-> <<"7">>, EventDate |-> <<"0","1","/","0","3","/","2","0","2","5">>,
                 EventBodyName |-> <<"C","i","t","y"," ","C","o","u","n","c","i","l">>]

PhoenixItemPool ==
    { [EventItemId |-> <<"1">>, EventItemTitle |-> <<"G">>,
       EventItemActionName |-> <<"A","d","o","p","t","e","d">>],
      [EventItemId |-> <<"1">>, EventItemTitle |-> <<"H">>, EventItemActionName |-> None],
      [EventItemId |-> <<"2">>, EventItemTitle |-> None] }

PhoenixInputs ==
    { [max_events |-> 10, events |-> << [event |-> PhoenixEvent, items |-> i] >>] :
        i \in BoundedSeq(PhoenixItemPool, MaxBatch) }

-----------------------------------------------------------------------------
(* The connector runs as operations on the store                           *)

ApplyRun(op, inp, r) ==
    /\ measures' = r.measures
    /\ measureSources' = r.sources
    /\ runs' = r.runs
    /\ nextId' = r.nextId
    /\ hist' = [op |-> op, args |-> inp, returned |-> r.returned, stats |-> r.stats,
                repeat |-> hist.op = op /\ hist.args = inp]
    /\ UNCHANGED <<officials, voteEvents, officialVotes, userVotes, userOfficials, userProfiles,
                   matchResults, cache, probe, connectors, workers>>

FederalRun(inp) ==
    /\ Cardinality(runs) < MaxRuns
    /\ ApplyRun("federal", inp, FederalRunResult(measures, measureSources, runs, nextId, inp))

ArizonaRun(inp) ==
    /\ Cardinality(runs) < MaxRuns
    /\ ApplyRun("arizona", inp, ArizonaRunResult(measures, measureSources, runs, nextId, inp))

PhoenixRun(inp) ==
    /\ Cardinality(runs) < MaxRuns
    /\ ApplyRun("phoenix", inp, PhoenixRunResult(measures, measureSources, runs, nextId, inp))

NoHist == [op |-> "init", args |-> <<>>]

EmptyStore ==
    /\ measures = {} /\ measureSources = {} /\ runs = {}
    /\ connectors = {} /\ workers = <<>>
    /\ officials = {} /\ voteEvents = {} /\ officialVotes = {}
    /\ userVotes = {} /\ userOfficials = {} /\ userProfiles = {}
    /\ matchResults = {}
    /\ cache = <<>> /\ nextId = 1 /\ hist = NoHist /\ probe = <<>>

InitConn == EmptyStore

NextConn ==
    \/ \E inp \in FederalInputs : FederalRun(inp)
    \/ \E inp \in ArizonaInputs : ArizonaRun(inp)
    \/ \E inp \in PhoenixInputs : PhoenixRun(inp)

SpecConn == InitConn /\ [][NextConn]_vars

-----------------------------------------------------------------------------
(* Properties of the connector runs                                        *)

ConnOps == {"federal", "arizona", "phoenix"}

C7_RunFailureIsolation ==
    hist.op \in {"federal", "arizona"} =>
        /\ hist.returned
        /\ \E r \in runs : r.status = "succeeded" /\ r.stats = hist.stats
        /\ (hist.op = "federal" /\ ~hist.args.fetch_all
              => hist.stats.bills_fetched = Len(hist.args.bills))
        /\ hist.stats.new_measures + hist.stats.updated_measures
             = hist.stats.bills_fetched - hist.stats.errors

\* C9: no two Measure rows have the same non-null canonical_key.
C9_CanonicalKeyUnique ==
    \A m1, m2 \in measures :
        (m1.canonical_key # None /\ m1.canonical_key = m2.canonical_key) => m1 = m2

\* one run met two records of the same canonical key: one insert, one update
C9_Witness ==
    /\ hist.op \in ConnOps
    /\ hist.returned
    /\ hist.stats.new_measures = 1
    /\ hist.stats.updated_measures = 1
    /\ Len(hist.args.bills) = 2
    /\ Cardinality(measures) = 1

-----------------------------------------------------------------------------
(* services/roll_call_votes.py: bill citations                             *)

\* the patterns list, in its order: H\.?\s*R\.?\s*(\d+) is the letter groups
\* H, R, each followed by \.?\s*, then the digits
CitationPatterns ==
    [i \in 1..Len(BillTypeCodes) |->
        [groups |-> PrefixGroups(BillTypeCodes[i]), bill_type |-> BillTypeCodes[i]]]

\* \.? at position i: the position after it
SkipDot(s, i) == IF i <= Len(s) /\ s[i] = "." THEN i + 1 ELSE i

\* \s* at position i: the position after it
RECURSIVE SkipSpaces(_, _)
SkipSpaces(s, i) == IF i <= Len(s) /\ IsSpace(s[i]) THEN SkipSpaces(s, i + 1) ELSE i

\* \d+ at position i: the position after the last digit (i when there is none)
RECURSIVE TakeDigits(_, _)
TakeDigits(s, i) == IF i <= Len(s) /\ IsDigit(s[i]) THEN TakeDigits(s, i + 1) ELSE i

\* the letter groups, each with its \.?\s*, matched at position i: the position
\* after them, or 0. Letters, dots, blanks and digits are disjoint classes, so
\* the greedy choice is the only one that can lead to a match.
RECURSIVE MatchGroups(_, _, _)
MatchGroups(groups, s, i) ==
    IF groups = <<>> THEN i
    ELSE LET g == Head(groups)
             e == i + Len(g) - 1
         IN  IF e <= Len(s) /\ Upper(SubSeq(s, i, e)) = Upper(g)
             THEN MatchGroups(Tail(groups), s, SkipSpaces(s, SkipDot(s, e + 1)))
             ELSE 0

\* (\d+) at position j, the position after the letter groups (0: no match)
DigitsAt(s, j) == IF j = 0 THEN <<>> ELSE SubSeq(s, j, TakeDigits(s, j) - 1)

\* the pattern matched at position i: group(1), or <<>> when it does not match
MatchAt(groups, s, i) == DigitsAt(s, MatchGroups(groups, s, i))

\* the match at the leftmost of the positions where the pattern matches
LeftmostMatch(groups, s, starts) ==
    IF starts = {} THEN <<>>
    ELSE MatchAt(groups, s, CHOOSE i \in starts : \A k \in starts : i <= k)

\* re.search(pattern, ref, re.IGNORECASE): the leftmost match, anywhere in ref
ReSearch(groups, s) ==
    LeftmostMatch(groups, s, {i \in 1..Len(s) : MatchAt(groups, s, i) # <<>>})

NoCitation == [matched |-> FALSE]

\* if match: return (bill_type, match.group(1)), else the next pattern
RECURSIVE SearchPatterns(_, _)
CitationOrNext(ref, i, group1) ==
    IF group1 # <<>>
    THEN [matched |-> TRUE,
          bill_type |-> CitationPatterns[i].bill_type,
          bill_number |-> group1]
    ELSE SearchPatterns(ref, i + 1)

\* for pattern, bill_type in patterns: the first pattern that matches
SearchPatterns(ref, i) ==
    IF i > Len(CitationPatterns) THEN NoCitation
    ELSE CitationOrNext(ref, i, ReSearch(CitationPatterns[i].groups, ref))

\* _parse_bill_ref
ParseBillRef(bill_ref) == SearchPatterns(Upper(Strip(bill_ref)), 1)

\* f"us:congress:{congress}:{bill_type}:{bill_number}"
RollCallCanonicalKey(congress, bill_type, bill_number) ==
    JoinWith(<<T_us, T_congress, NatToStr(congress), bill_type, bill_number>>, Colon)

NoMeasure == [raised |-> FALSE, found |-> FALSE]

\* select(Measure.id).where(Measure.canonical_key == canonical_key):
\* scalar_one_or_none() raises MultipleResultsFound
MeasureOfKey(ms, key) ==
    LET rows == {m \in ms : m.canonical_key = key}
    IN  IF rows = {} THEN NoMeasure
        ELSE IF Cardinality(rows) > 1 THEN Raised
        ELSE [raised |-> FALSE, found |-> TRUE,
              measure_id |-> (CHOOSE m \in rows : TRUE).id, key |-> key]

\* if not parsed: return None, else the measure of the canonical key
MeasureOfCitation(ms, c, congress) ==
    IF ~c.matched THEN NoMeasure
    ELSE MeasureOfKey(ms, RollCallCanonicalKey(congress, c.bill_type, c.bill_number))

\* _match_bill_to_measure
MatchBillToMeasure(ms, bill_ref, congress) ==
    MeasureOfCitation(ms, ParseBillRef(bill_ref), congress)

-----------------------------------------------------------------------------
(* Citations as the chambers write them                                    *)

CitationNumberSeq == << <<"5">>, <<"1","2">>, <<"1","2","2","8">> >>

CitationNumbers == {CitationNumberSeq[i] : i \in 1..Len(CitationNumberSeq)}

\* "H.J.RES.", "h.j.res.", "H.J.Res."
LetterCases == {"upper", "lower", "title"}

TitleCase(s) ==
    [i \in 1..Len(s) |->
        IF i = 1 \/ (LowerChar(s[i - 1]) = s[i - 1] /\ UpperChar(s[i - 1]) = s[i - 1])
        THEN UpperChar(s[i]) ELSE LowerChar(s[i])]

ApplyCase(s, case) ==
    CASE case = "upper" -> Upper(s)
      [] case = "lower" -> Lower(s)
      [] case = "title" -> TitleCase(s)

\* a citation of bill (code, number), and the bill it names
Citations ==
    { [text |-> ApplyCase(PrefixForm(BillTypeCodes[i], st), cs) \o gap \o n,
       names |-> [bill_type |-> BillTypeCodes[i], bill_number |-> n]] :
        i \in 1..Len(BillTypeCodes), st \in PrefixStyles, cs \in LetterCases,
        gap \in {<<>>, <<" ">>}, n \in CitationNumbers }

NamesNoBill == [bill_type |-> <<>>, bill_number |-> <<>>]

\* texts that carry none of the eight prefixes
OtherTexts ==
    { [text |-> t, names |-> NamesNoBill] :
        t \in { <<"P","N"," ","1","2">>, <<"Q","U","O","R","U","M">>, <<"T","r","e","a","t","y"," ","D","o","c","."," ","7">>, <<"1","2">>, <<>> } }

CitationInputs == Citations \cup OtherTexts

\* the catalogue: every bill the citations name, as the federal connector stores it
RECURSIVE InsertAll(_, _, _)
InsertAll(ms, id, bills) ==
    IF bills = <<>> THEN ms
    ELSE InsertAll(ms \cup {NewMeasure(id, FederalMapBillToMeasure(Head(bills)))},
                   id + 1, Tail(bills))

\* the tracked bills: every type with every number
CatalogueBills ==
    [k \in 1..(Len(BillTypeCodes) * Len(CitationNumberSeq)) |->
        [type |-> Upper(BillTypeCodes[((k - 1) \div Len(CitationNumberSeq)) + 1]),
         number |-> CitationNumberSeq[((k - 1) % Len(CitationNumberSeq)) + 1],
         congress |-> CURRENT_CONGRESS,
         title |-> <<"T">>, latestAction |-> T_introduced]]

FullCatalogue == InsertAll({}, 1, CatalogueBills)

InitCite ==
    /\ measures = FullCatalogue
    /\ measureSources = {} /\ runs = {}
    /\ connectors = {} /\ workers = <<>>
    /\ officials = {} /\ voteEvents = {} /\ officialVotes = {}
    /\ userVotes = {} /\ userOfficials = {} /\ userProfiles = {}
    /\ matchResults = {}
    /\ cache = <<>> /\ nextId = Cardinality(FullCatalogue) + 1
    /\ hist = NoHist
    /\ \E c \in CitationInputs : probe = [stage |-> "read", citation |-> c]

\* the ingestor resolves the citation it read from a document
ResolveCitation ==
    /\ probe.stage = "read"
    /\ probe' = [stage |-> "resolved", citation |-> probe.citation,
                 parsed |-> ParseBillRef(probe.citation.text),
                 match |-> MatchBillToMeasure(measures, probe.citation.text,
                                              CURRENT_CONGRESS)]
    /\ UNCHANGED <<measures, measureSources, runs, officials, voteEvents, officialVotes,
                   userVotes, userOfficials, userProfiles, matchResults, cache, nextId, hist,
                   connectors, workers>>

NextCite == ResolveCitation

SpecCite == InitCite /\ [][NextCite]_vars

\* C4: a citation written with one of the eight prefixes, with or without
\* dots and spaces, is parsed to that prefix's own bill-type code and its
\* number, and the key looked up is that bill's; a text with none of the
\* prefixes yields no match and nothing is raised.
C4_CitationParsing ==
    probe.stage = "resolved" =>
        /\ ~probe.match.raised
        /\ IF probe.citation.names = NamesNoBill
           THEN ~probe.parsed.matched /\ ~probe.match.found
           ELSE /\ probe.parsed.matched
                /\ probe.parsed.bill_type = probe.citation.names.bill_type
                /\ probe.parsed.bill_number = probe.citation.names.bill_number
                /\ probe.match.found
                /\ probe.match.key = FederalCanonicalKey(CURRENT_CONGRESS,
                                         probe.citation.names.bill_type,
                                         probe.citation.names.bill_number)

-----------------------------------------------------------------------------
(* services/roll_call_votes.py: one roll-call document                     *)
(* An ingestion context is the session's view of vote_events,              *)
(* official_votes and officials, the view at the last commit (base),       *)
(* whether the session is still usable, and the stats dict.                *)

MaxConsecutive404 == 5

Falsy(v) == v = None \/ v = <<>>

\* VOTE_MAP.get(vote_text, "unknown")
VoteMap(vote_text) ==
    CASE vote_text \in {<<"y","e","a">>, <<"a","y","e">>, <<"y","e","s">>} -> "yea"
      [] vote_text \in {<<"n","a","y">>, <<"n","o">>} -> "nay"
      [] vote_text = <<"p","r","e","s","e","n","t">> -> "present"
      [] vote_text \in {<<"n","o","t"," ","v","o","t","i","n","g">>, <<"n","o","t","_","v","o","t","i","n","g">>} -> "not_voting"
      [] OTHER -> "unknown"

NewRollStats ==
    [votes_processed |-> 0, official_votes_created |-> 0, matched_measures |-> 0,
     errors |-> 0]

NewRollContext(events, votes, offs, id) ==
    [events |-> events, votes |-> votes, officials |-> offs, nextId |-> id,
     ok |-> TRUE, stats |-> NewRollStats,
     base |-> [events |-> events, votes |-> votes, officials |-> offs, nextId |-> id]]

\* the flush failed: the transaction is rolled back, the session unusable
FailRollFlush(ctx) ==
    [ctx EXCEPT !.events = ctx.base.events, !.votes = ctx.base.votes,
                !.officials = ctx.base.officials, !.nextId = ctx.base.nextId,
                !.ok = FALSE]

RollRaised(ctx) == [raised |-> TRUE, ctx |-> ctx]
RollReturned(ctx) == [raised |-> FALSE, ctx |-> ctx]

\* f"house:{congress}:{session}:{roll_num}"
HouseExternalId(congress, session, roll_num) ==
    JoinWith(<<<<"h","o","u","s","e">>, NatToStr(congress), NatToStr(session), NatToStr(roll_num)>>,
             Colon)

\* f"senate:{congress}:{session}:{vote_num}"
SenateExternalId(congress, session, vote_num) ==
    JoinWith(<<<<"s","e","n","a","t","e">>, NatToStr(congress), NatToStr(session), NatToStr(vote_num)>>,
             Colon)

\* select(VoteEvent).where(VoteEvent.external_id == external_id)
ExistingVoteEventMut(events, external_id) == {}

ExistingVoteEvent(events, external_id) ==
    {e \in events : e.external_id = external_id}

MonthAbbrs ==
    {<<"j","a","n">>, <<"f","e","b">>, <<"m","a","r">>, <<"a","p","r">>, <<"m","a","y">>, <<"j","u","n">>,
     <<"j","u","l">>, <<"a","u","g">>, <<"s","e","p">>, <<"o","c","t">>, <<"n","o","v">>, <<"d","e","c">>}

MonthNames ==
    {<<"j","a","n","u","a","r","y">>, <<"f","e","b","r","u","a","r","y">>, <<"m","a","r","c","h">>, <<"a","p","r","i","l">>, <<"m","a","y">>, <<"j","u","n","e">>, <<"j","u","l","y">>,
     <<"a","u","g","u","s","t">>, <<"s","e","p","t","e","m","b","e","r">>, <<"o","c","t","o","b","e","r">>, <<"n","o","v","e","m","b","e","r">>, <<"d","e","c","e","m","b","e","r">>}

AllDigits(s) == s # <<>> /\ \A i \in 1..Len(s) : IsDigit(s[i])

\* datetime.strptime(date_str, "%d-%b-%Y") under try/except, fields at full width
HouseHeldAt(action_date) ==
    IF action_date = None \/ action_date = <<>> THEN None
    ELSE IF /\ Len(action_date) = 11
            /\ action_date[3] = "-" /\ action_date[7] = "-"
            /\ AllDigits(SubSeq(action_date, 1, 2))
            /\ Lower(SubSeq(action_date, 4, 6)) \in MonthAbbrs
            /\ AllDigits(SubSeq(action_date, 8, 11))
         THEN action_date
         ELSE None

\* "%B %d, %Y" at the start of the stripped text, fields at full width
IsSenateDay(s) ==
    \E n \in 1..Len(s) :
        /\ Lower(SubSeq(s, 1, n)) \in MonthNames
        /\ Len(s) = n + 9
        /\ s[n + 1] = " " /\ AllDigits(SubSeq(s, n + 2, n + 3))
        /\ s[n + 4] = "," /\ s[n + 5] = " "
        /\ AllDigits(SubSeq(s, n + 6, n + 9))

\* ", %I:%M %p" after the day
IsSenateTime(s) ==
    /\ Len(s) = 10
    /\ s[1] = "," /\ s[2] = " " /\ AllDigits(SubSeq(s, 3, 4)) /\ s[5] = ":"
    /\ AllDigits(SubSeq(s, 6, 7)) /\ s[8] = " "
    /\ Upper(SubSeq(s, 9, 10)) \in {<<"A","M">>, <<"P","M">>}

\* for fmt in ["%B %d, %Y, %I:%M %p", "%B %d, %Y"]: strptime or continue
SenateHeldAt(vote_date) ==
    IF vote_date = None \/ vote_date = <<>> THEN None
    ELSE LET d == Strip(vote_date) IN
         IF IsSenateDay(d) THEN d
         ELSE IF Len(d) > 10 /\ IsSenateDay(SubSeq(d, 1, Len(d) - 10))
                 /\ IsSenateTime(SubSeq(d, Len(d) - 9, Len(d)))
         THEN d
         ELSE None

\* House: "passed"/"agreed" -> passed, "failed"/"rejected" -> failed
HouseResult(vote_result) ==
    IF Falsy(vote_result) THEN "unknown"
    ELSE LET t == Lower(vote_result) IN
         IF Contains(t, T_passed) \/ Contains(t, T_agreed) THEN "passed"
         ELSE IF Contains(t, T_failed) \/ Contains(t, T_rejected) THEN "failed"
         ELSE "unknown"

\* Senate: "agreed"/"passed"/"confirmed" -> passed, "rejected"/"failed" -> failed
SenateResult(vote_result) ==
    IF Falsy(vote_result) THEN "unknown"
    ELSE LET t == Lower(vote_result) IN
         IF Contains(t, T_agreed) \/ Contains(t, T_passed) \/ Contains(t, T_confirmed)
         THEN "passed"
         ELSE IF Contains(t, T_rejected) \/ Contains(t, T_failed) THEN "failed"
         ELSE "unknown"

NewVoteEvent(id, measure_id, body, external_id, held_at, result) ==
    [id |-> id, measure_id |-> measure_id, body |-> body, external_id |-> external_id,
     held_at |-> held_at, result |-> result]

NewOfficialVote(vote_event_id, official_id, vote) ==
    [vote_event_id |-> vote_event_id, official_id |-> official_id, vote |-> vote]

\* a dict as a set of [k, v] entries: d[k] = v replaces the entry of k
DictPut(d, k, v) == {e \in d : e.k # k} \cup {[k |-> k, v |-> v]}
DictHas(d, k) == \E e \in d : e.k = k
DictGet(d, k) == (CHOOSE e \in d : e.k = k).v

\* the final flush on a table without the primary key: every pending row
\* is inserted
FlushWithoutKey(ctx, vote_event_id, pending) ==
    RollReturned([ctx EXCEPT !.votes = @ \cup
        {NewOfficialVote(vote_event_id, pending[i].official_id, pending[i].vote) :
            i \in 1..Len(pending)}])

\* the final flush in a transaction of its own: when two pending rows clash
\* it raises and the vote event flushed before it stays
FlushOnItsOwn(ctx, vote_event_id, pending) ==
    IF \E i, j \in 1..Len(pending) : i # j /\ pending[i].official_id = pending[j].official_id
    THEN RollRaised(ctx)
    ELSE FlushWithoutKey(ctx, vote_event_id, pending)

\* the final flush of a document: the pending OfficialVote rows are inserted;
\* two rows of one (vote_event_id, official_id) violate the primary key
FlushOfficialVotes(ctx, vote_event_id, pending) ==
    LET rows == {NewOfficialVote(vote_event_id, pending[i].official_id, pending[i].vote) :
                    i \in 1..Len(pending)}
        clash == \/ \E i, j \in 1..Len(pending) :
                        i # j /\ pending[i].official_id = pending[j].official_id
                 \/ \E r \in rows, v \in ctx.votes :
                        r.vote_event_id = v.vote_event_id /\ r.official_id = v.official_id
    IN  IF clash THEN RollRaised(FailRollFlush(ctx))
        ELSE RollReturned([ctx EXCEPT !.votes = @ \cup rows])

\* for recorded_vote in root.findall(".//recorded-vote"): the rows to add
RECURSIVE HouseRecordedVotes(_, _)
HouseRecordedVotes(recorded, bioguide_map) ==
    IF recorded = <<>> THEN <<>>
    ELSE LET rv == Head(recorded)
             rest == HouseRecordedVotes(Tail(recorded), bioguide_map)
         IN  IF "name_id" \notin DOMAIN rv THEN rest      \* no legislator element
             ELSE IF ~DictHas(bioguide_map, rv.name_id) THEN rest
             ELSE <<[official_id |-> DictGet(bioguide_map, rv.name_id),
                     vote |-> VoteMap(Lower(Strip(Get(rv, "vote", <<>>))))]>> \o rest

\* _process_house_vote_xml, from db.add(vote_event) and its flush to the flush
\* of the members' votes
AddHouseVoteEvent(ctx, event, pending) ==
    FlushOfficialVotes([ctx EXCEPT !.events = @ \cup {event}, !.nextId = @ + 1,
                                   !.stats.matched_measures = @ + 1,
                                   !.stats.official_votes_created = @ + Len(pending)],
                       event.id, pending)

\* _process_house_vote_xml, after the document is parsed: existing is the
\* vote events of external_id, found the measure the legis-num resolves to
HouseVoteOfMeasure(ctx, doc, external_id, existing, found, bioguide_map) ==
    IF Cardinality(existing) > 1 THEN RollRaised(ctx)     \* MultipleResultsFound
    ELSE IF existing # {} THEN RollReturned(ctx)
    ELSE IF found.raised THEN RollRaised(ctx)
    ELSE IF ~found.found THEN RollReturned(ctx)
    ELSE AddHouseVoteEvent(ctx,
             NewVoteEvent(ctx.nextId, found.measure_id, "U.S. House", external_id,
                          HouseHeldAt(doc.action_date), HouseResult(doc.vote_result)),
             HouseRecordedVotes(doc.votes, bioguide_map))

\* _process_house_vote_xml
ProcessHouseVoteXml(ctx, ms, doc, congress, session, roll_num, bioguide_map) ==
    IF doc.malformed THEN RollRaised(ctx)                 \* ET.fromstring raises
    ELSE IF ~ctx.ok THEN RollRaised(ctx)                  \* PendingRollbackError
    ELSE HouseVoteOfMeasure(ctx, doc, HouseExternalId(congress, session, roll_num),
             ExistingVoteEvent(ctx.events, HouseExternalId(congress, session, roll_num)),
             IF Falsy(doc.legis_num) THEN NoMeasure
             ELSE MatchBillToMeasure(ms, doc.legis_num, congress),
             bioguide_map)

\* one member of a Senate document: lis_map, then the (last_name, state) map
\* of Official objects; st is [officials, pending]
SenateMember(st, member, lis_map, name_state_map) ==
    LET lis_id == Strip(Get(member, "lis_member_id", <<>>))
        vote == VoteMap(Lower(Strip(Get(member, "vote_cast", <<>>))))
        direct == DictHas(lis_map, lis_id)
        key == <<Lower(Strip(Get(member, "last_name", <<>>))),
                 Upper(Strip(Get(member, "state", <<>>)))>>
        fallback == /\ ~direct
                    /\ "last_name" \in DOMAIN member /\ "state" \in DOMAIN member
                    /\ DictHas(name_state_map, key)
        official_id == IF direct THEN DictGet(lis_map, lis_id)
                       ELSE DictGet(name_state_map, key)
        matched_official == CHOOSE o \in st.officials : o.id = official_id
        backfill == fallback /\ lis_id # <<>> /\ Falsy(matched_official.lis_member_id)
    IN  IF ~direct /\ ~fallback THEN st
        ELSE [officials |->
                 IF backfill
                 THEN (st.officials \ {matched_official})
                        \cup {[matched_official EXCEPT !.lis_member_id = lis_id]}
                 ELSE st.officials,
              pending |-> Append(st.pending, [official_id |-> official_id, vote |-> vote])]

RECURSIVE SenateMembers(_, _, _, _)
SenateMembers(st, members, lis_map, name_state_map) ==
    IF members = <<>> THEN st
    ELSE SenateMembers(SenateMember(st, Head(members), lis_map, name_state_map),
                       Tail(members), lis_map, name_state_map)

\* _process_senate_vote_xml, from db.add(vote_event) and its flush to the flush
\* of the members' votes; st is what the loop over the members left
AddSenateVoteEvent(ctx, event, st) ==
    FlushOfficialVotes([ctx EXCEPT !.events = @ \cup {event}, !.nextId = @ + 1,
                                   !.officials = st.officials,
                                   !.stats.matched_measures = @ + 1,
                                   !.stats.official_votes_created = @ + Len(st.pending)],
                       event.id, st.pending)

\* _process_senate_vote_xml, after the document is parsed: existing is the
\* vote events of external_id, found the measure the document name resolves to
SenateVoteOfMeasure(ctx, doc, external_id, existing, found, lis_map, name_state_map) ==
    IF Cardinality(existing) > 1 THEN RollRaised(ctx)
    ELSE IF existing # {} THEN RollReturned(ctx)
    ELSE IF found.raised THEN RollRaised(ctx)
    ELSE IF ~found.found THEN RollReturned(ctx)
    ELSE AddSenateVoteEvent(ctx,
             NewVoteEvent(ctx.nextId, found.measure_id, "U.S. Senate", external_id,
                          SenateHeldAt(doc.vote_date), SenateResult(doc.vote_result)),
             SenateMembers([officials |-> ctx.officials, pending |-> <<>>],
                           doc.members, lis_map, name_state_map))

\* _process_senate_vote_xml
ProcessSenateVoteXml(ctx, ms, doc, congress, session, vote_num, lis_map, name_state_map) ==
    IF doc.malformed THEN RollRaised(ctx)
    ELSE IF ~ctx.ok THEN RollRaised(ctx)
    ELSE SenateVoteOfMeasure(ctx, doc, SenateExternalId(congress, session, vote_num),
             ExistingVoteEvent(ctx.events, SenateExternalId(congress, session, vote_num)),
             IF Falsy(doc.document_name) THEN NoMeasure
             ELSE MatchBillToMeasure(ms, doc.document_name, congress),
             lis_map, name_state_map)

-----------------------------------------------------------------------------
(* services/roll_call_votes.py: the lookup maps and the two loops          *)

\* the rows of a query without ORDER BY come in any order
Orderings(S) ==
    {f \in [1..Cardinality(S) -> S] : \A x \in S : \E i \in 1..Cardinality(S) : f[i] = x}

\* {row[1]: row[0] for row in result.fetchall()}
RECURSIVE DictOfBioguide(_, _)
DictOfBioguide(d, rows) ==
    IF rows = <<>> THEN d
    ELSE DictOfBioguide(DictPut(d, Head(rows).bioguide_id, Head(rows).id), Tail(rows))

\* _build_bioguide_map: the maps the rows can give
BuildBioguideMaps(offs) ==
    {DictOfBioguide({}, rows) :
        rows \in Orderings({o \in offs : ~Falsy(o.bioguide_id)})}

FirstIndexOf(s, c) ==
    IF \E i \in 1..Len(s) : s[i] = c
    THEN CHOOSE i \in 1..Len(s) : s[i] = c /\ \A k \in 1..(i - 1) : s[k] # c
    ELSE 0

\* name.split()[-1] of a name that has a word
LastWord(s) ==
    LET t == StripRight(s)
        blanks == {i \in 1..Len(t) : IsSpace(t[i])}
        from == IF blanks = {} THEN 1
                ELSE (CHOOSE i \in blanks : \A k \in blanks : k <= i) + 1
    IN  SubSeq(t, from, Len(t))

\* "LastName, FirstName": the text before the comma, else the last word
SenatorLastName(name) ==
    IF Contains(name, <<",">>)
    THEN Lower(Strip(SubSeq(name, 1, FirstIndexOf(name, ",") - 1)))
    ELSE Lower(LastWord(name))

\* (last_name, state) of a senator row
SenatorKey(s) ==
    <<SenatorLastName(s.name),
      Upper(IF s.district_label = None THEN <<>> ELSE s.district_label)>>

\* for s in senators: lis_map[..] = s.id; name_state_map[(last_name, state)] = s
RECURSIVE DictsOfSenators(_, _)
DictsOfSenators(maps, rows) ==
    IF rows = <<>> THEN maps
    ELSE LET s == Head(rows)
             key == SenatorKey(s)
         IN  DictsOfSenators(
                [lis_map |-> IF Falsy(s.lis_member_id) THEN maps.lis_map
                             ELSE DictPut(maps.lis_map, s.lis_member_id, s.id),
                 name_state_map |-> IF key[1] # <<>> /\ key[2] # <<>>
                                    THEN DictPut(maps.name_state_map, key, s.id)
                                    ELSE maps.name_state_map],
                Tail(rows))

\* _build_senate_maps: the maps the rows can give
BuildSenateMaps(offs) ==
    {DictsOfSenators([lis_map |-> {}, name_state_map |-> {}], rows) :
        rows \in Orderings({o \in offs : o.chamber = "us_senate"})}

\* what the chamber's site answers for a sequence number: beyond the
\* documents published so far it answers 404
ResponseAt(responses, n) ==
    IF n <= Len(responses) THEN responses[n] ELSE [status |-> 404]

CountDoc(r) ==
    IF r.raised THEN [r.ctx EXCEPT !.stats.errors = @ + 1]
    ELSE [r.ctx EXCEPT !.stats.votes_processed = @ + 1]

\* while consecutive_404s < 5; status 0 is a fetch that raised (timeout)
RECURSIVE HouseLoop(_, _, _, _, _, _)
HouseLoop(ctx, ms, inp, roll_num, consecutive_404s, bioguide_map) ==
    IF consecutive_404s >= MaxConsecutive404 THEN ctx
    ELSE LET resp == ResponseAt(inp.responses, roll_num) IN
         CASE resp.status = 404 ->
                HouseLoop(ctx, ms, inp, roll_num + 1, consecutive_404s + 1, bioguide_map)
           [] resp.status = 200 ->
                HouseLoop(CountDoc(ProcessHouseVoteXml(ctx, ms, resp.doc, inp.congress,
                                       inp.session, roll_num, bioguide_map)),
                          ms, inp, roll_num + 1, 0, bioguide_map)
           [] resp.status = 0 ->
                HouseLoop([ctx EXCEPT !.stats.errors = @ + 1],
                          ms, inp, roll_num + 1, consecutive_404s, bioguide_map)
           [] OTHER ->      \* raise_for_status(): httpx.HTTPStatusError
                HouseLoop(ctx, ms, inp, roll_num + 1, consecutive_404s + 1, bioguide_map)

RECURSIVE SenateLoop(_, _, _, _, _, _)
SenateLoop(ctx, ms, inp, vote_num, consecutive_404s, maps) ==
    IF consecutive_404s >= MaxConsecutive404 THEN ctx
    ELSE LET resp == ResponseAt(inp.responses, vote_num) IN
         CASE resp.status = 404 ->
                SenateLoop(ctx, ms, inp, vote_num + 1, consecutive_404s + 1, maps)
           [] resp.status = 200 ->
                SenateLoop(CountDoc(ProcessSenateVoteXml(ctx, ms, resp.doc, inp.congress,
                                        inp.session, vote_num, maps.lis_map,
                                        maps.name_state_map)),
                           ms, inp, vote_num + 1, 0, maps)
           [] resp.status = 0 ->
                SenateLoop([ctx EXCEPT !.stats.errors = @ + 1],
                           ms, inp, vote_num + 1, consecutive_404s, maps)
           [] OTHER ->
                SenateLoop(ctx, ms, inp, vote_num + 1, consecutive_404s + 1, maps)

\* ingest_house_votes on a fresh session
IngestHouseResult(events, votes, offs, ms, id, inp, bioguide_map) ==
    HouseLoop(NewRollContext(events, votes, offs, id), ms, inp, 1, 0, bioguide_map)

\* ingest_senate_votes on a fresh session
IngestSenateResult(events, votes, offs, ms, id, inp, maps) ==
    SenateLoop(NewRollContext(events, votes, offs, id), ms, inp, 1, 0, maps)

\* the session ends: commit() writes the session's view; on an unusable
\* session it raises, and rollback() leaves the tables as they were
EndSession(ctx) == IF ctx.ok THEN ctx ELSE ctx.base

-----------------------------------------------------------------------------
(* Roll-call ingestion over a catalogue of measures and officials          *)

MaxDocs == 2        \* documents published for a chamber and session
MaxIngests == 2     \* roll-call ingestions in one behaviour

\* the tracked bills: H.R. 5 and S. 5
RollCatalogue ==
    InsertAll({}, 1,
        << [type |-> <<"H","R">>, number |-> <<"5">>, congress |-> CURRENT_CONGRESS,
            title |-> <<"T">>, latestAction |-> T_introduced],
           [type |-> <<"S">>, number |-> <<"5">>, congress |-> CURRENT_CONGRESS,
            title |-> <<"U">>, latestAction |-> T_introduced] >>)

NewOfficial(id, external_id, name, party, office, chamber, district_label, bioguide_id, lis_member_id) ==
    [id |-> id, external_id |-> external_id, name |-> name, party |-> party,
     office |-> office, chamber |-> chamber, district_label |-> district_label,
     photo_url |-> None, bioguide_id |-> bioguide_id, lis_member_id |-> lis_member_id]

T_us_representative == <<"U",".","S","."," ","R","e","p","r","e","s","e","n","t","a","t","i","v","e">>
T_us_senator == <<"U",".","S","."," ","S","e","n","a","t","o","r">>

Rep1 == NewOfficial(11, <<"c","o","n","g","r","e","s","s",":","K","1">>, <<"K","i","m",","," ","A","n","d","y">>, <<"D">>, T_us_representative, "us_house",
                    <<"C","D","-","0","3">>, <<"K","1">>, None)
Rep2 == NewOfficial(12, <<"c","o","n","g","r","e","s","s",":","R","2">>, <<"R","o","y",","," ","C","h","i","p">>, <<"R">>, T_us_representative, "us_house",
                    <<"C","D","-","2","1">>, <<"R","2">>, None)
Sen1 == NewOfficial(13, <<"c","o","n","g","r","e","s","s",":","L","3">>, <<"L","e","e",","," ","M","i","k","e">>, <<"R">>, T_us_senator, "us_senate",
                    <<"U","T">>, None, None)
Sen1Known == [Sen1 EXCEPT !.lis_member_id = <<"S","1">>]
Sen2 == NewOfficial(14, <<"c","o","n","g","r","e","s","s",":","L","4">>, <<"A","n","n"," ","L","e","e">>, <<"D">>, T_us_senator, "us_senate",
                    <<"u","t">>, None, <<"S","2">>)

\* the officials table when roll-call ingestion starts
OfficialTables ==
    { {Rep1, Rep2, Sen1}, {Rep1, Rep2, Sen1Known}, {Rep1, Sen1, Sen2} }

HouseDoc(legis_num, names, action_date, vote_result, votes) ==
    [malformed |-> FALSE, legis_num |-> legis_num, names |-> names,
     action_date |-> action_date, vote_result |-> vote_result, votes |-> votes]

Names(bill_type, bill_number) == [bill_type |-> bill_type, bill_number |-> bill_number]

MalformedDoc == [malformed |-> TRUE, names |-> NamesNoBill]

\* names is the bill the citation text names: it is not read by the ingestor
HouseDocPool ==
    { HouseDoc(<<"H"," ","R"," ","5">>, Names(<<"h","r">>, <<"5">>), <<"0","3","-","J","a","n","-","2","0","2","5">>, <<"P","a","s","s","e","d">>,
               << [name_id |-> <<"K","1">>, vote |-> <<"Y","e","a">>],
                  [name_id |-> <<"R","2">>, vote |-> <<"N","o">>],
                  [name_id |-> <<"X","9">>, vote |-> <<"P","r","e","s","e","n","t">>] >>),
      HouseDoc(<<"H"," ","R","E","S"," ","5">>, Names(<<"h","r","e","s">>, <<"5">>), None, <<"F","a","i","l","e","d">>,
               << [name_id |-> <<"K","1">>, vote |-> <<"A","y","e">>] >>),
      HouseDoc(<<"Q","U","O","R","U","M">>, NamesNoBill, None, None,
               << [name_id |-> <<"K","1">>, vote |-> <<"P","r","e","s","e","n","t">>] >>),
      \* one legislator listed twice
      HouseDoc(<<"H"," ","R"," ","5">>, Names(<<"h","r">>, <<"5">>), <<"2","0","2","5">>, <<"A","g","r","e","e","d"," ","t","o">>,
               << [name_id |-> <<"K","1">>, vote |-> <<"Y","e","a">>],
                  [name_id |-> <<"K","1">>, vote |-> <<"N","a","y">>] >>),
      MalformedDoc }

SenateDoc(document_name, names, vote_date, vote_result, members) ==
    [malformed |-> FALSE, document_name |-> document_name, names |-> names,
     vote_date |-> vote_date, vote_result |-> vote_result, members |-> members]

Member(lis_member_id, last_name, state, vote_cast) ==
    [lis_member_id |-> lis_member_id, last_name |-> last_name, state |-> state,
     vote_cast |-> vote_cast]

SenateDocPool ==
    { SenateDoc(<<"S","."," ","5">>, Names(<<"s">>, <<"5">>), <<"F","e","b","r","u","a","r","y"," ","0","4",","," ","2","0","2","5",","," ","0","5",":","3","6"," ","P","M">>,
                <<"B","i","l","l"," ","P","a","s","s","e","d">>,
                << Member(<<"S","1">>, <<"L","e","e">>, <<"U","T">>, <<"Y","e","a">>),
                   Member(<<"S","7">>, <<"R","o","e">>, <<"T","X">>, <<"N","a","y">>) >>),
      \* two members of one last name and state
      SenateDoc(<<"S","."," ","5">>, Names(<<"s">>, <<"5">>), <<"F","e","b","r","u","a","r","y"," ","0","4",","," ","2","0","2","5">>, <<"R","e","j","e","c","t","e","d">>,
                << Member(<<"S","1">>, <<"L","e","e">>, <<"U","T">>, <<"Y","e","a">>),
                   Member(<<"S","2">>, <<"L","e","e">>, <<"U","T">>, <<"N","a","y">>) >>),
      SenateDoc(<<"P","N","1","2">>, NamesNoBill, None, <<"N","o","m","i","n","a","t","i","o","n"," ","C","o","n","f","i","r","m","e","d">>,
                << Member(<<"S","1">>, <<"L","e","e">>, <<"U","T">>, <<"Y","e","a">>) >>),
      SenateDoc(<<"S",".","J",".","R","e","s","."," ","5">>, Names(<<"s","j","r","e","s">>, <<"5">>), None, None,
                << Member(<<"S","1">>, <<"L","e","e">>, <<"U","T">>, <<"N","o","t"," ","V","o","t","i","n","g">>) >>),
      SenateDoc(<<"S","."," ","1","2">>, Names(<<"s">>, <<"1","2">>), None, None,
                << Member(<<"S","1">>, <<"L","e","e">>, <<"U","T">>, <<"Y","e","a">>) >>),
      \* a member without an identifier
      SenateDoc(<<"H",".","R","."," ","5">>, Names(<<"h","r">>, <<"5">>), None, <<"P","a","s","s","e","d">>,
                << Member(<<>>, <<"L","E","E">>, <<"u","t">>, <<"P","r","e","s","e","n","t">>) >>),
      MalformedDoc }

FetchFailures == { [status |-> 404], [status |-> 500], [status |-> 0] }

RollInputs(pool) ==
    { [congress |-> CURRENT_CONGRESS, session |-> 1, responses |-> r] :
        r \in BoundedSeq({[status |-> 200, doc |-> d] : d \in pool} \cup FetchFailures,
                         MaxDocs) }

ApplyIngest(op, inp, ctx) ==
    LET end == EndSession(ctx) IN
    /\ voteEvents' = end.events
    /\ officialVotes' = end.votes
    /\ officials' = end.officials
    /\ nextId' = end.nextId
    /\ hist' = [op |-> op, args |-> inp, stats |-> ctx.stats,
                committed |-> ctx.ok,
                repeat |-> hist.op = op /\ hist.args = inp /\ hist.committed,
                n |-> hist.n + 1]
    /\ UNCHANGED <<measures, measureSources, runs, userVotes, userOfficials, userProfiles,
                   matchResults, cache, probe, connectors, workers>>

IngestHouseVotes(inp) ==
    /\ hist.n < MaxIngests
    /\ \E bioguide_map \in BuildBioguideMaps(officials) :
          ApplyIngest("house", inp,
                      IngestHouseResult(voteEvents, officialVotes, officials, measures,
                                        nextId, inp, bioguide_map))

IngestSenateVotes(inp) ==
    /\ hist.n < MaxIngests
    /\ \E maps \in BuildSenateMaps(officials) :
          ApplyIngest("senate", inp,
                      IngestSenateResult(voteEvents, officialVotes, officials, measures,
                                         nextId, inp, maps))

InitRoll ==
    /\ measures = RollCatalogue
    /\ measureSources = {} /\ runs = {}
    /\ connectors = {} /\ workers = <<>>
    /\ officials \in OfficialTables
    /\ voteEvents = {} /\ officialVotes = {}
    /\ userVotes = {} /\ userOfficials = {} /\ userProfiles = {}
    /\ matchResults = {}
    /\ cache = <<>> /\ nextId = 21
    /\ hist = [op |-> "init", args |-> <<>>, committed |-> FALSE, n |-> 0]
    /\ probe = <<>>

NextRoll ==
    \/ \E inp \in RollInputs(HouseDocPool) : IngestHouseVotes(inp)
    \/ \E inp \in RollInputs(SenateDocPool) : IngestSenateVotes(inp)

SpecRoll == InitRoll /\ [][NextRoll]_vars

-----------------------------------------------------------------------------
(* Properties of roll-call ingestion                                       *)

RollOps == {"house", "senate"}

VotesOf(votes, e) == {v \in votes : v.vote_event_id = e.id}

\* C2: at most one VoteEvent carries an idempotency key; an ingestion that
\* meets a document whose VoteEvent is stored leaves that VoteEvent and its
\* OfficialVotes as they are; and an ingestion that directly follows a
\* committed ingestion of the same documents adds and changes no VoteEvent
\* and no OfficialVote.
C2_VoteEventIdempotent ==
    [][/\ \A e1, e2 \in voteEvents' : e1.external_id = e2.external_id => e1 = e2
       /\ \A e \in voteEvents :
             e \in voteEvents' /\ VotesOf(officialVotes', e) = VotesOf(officialVotes, e)
       /\ (hist'.op \in RollOps /\ hist'.repeat)
             => voteEvents' = voteEvents /\ officialVotes' = officialVotes]_vars

\* the documents of a committed ingestion that stored votes were ingested again
C2_Witness ==
    /\ hist.op \in RollOps
    /\ hist.repeat
    /\ hist.committed
    /\ voteEvents # {}
    /\ officialVotes # {}

ExternalIdOf(op, inp, n) ==
    IF op = "house" THEN HouseExternalId(inp.congress, inp.session, n)
    ELSE SenateExternalId(inp.congress, inp.session, n)

CitationOf(op, doc) == IF op = "house" THEN doc.legis_num ELSE doc.document_name

\* the documents of an ingestion: the sequence numbers answered with a
\* well-formed document
DocNumbers(inp) ==
    {n \in 1..Len(inp.responses) :
        inp.responses[n].status = 200 /\ ~inp.responses[n].doc.malformed}

\* the document names a bill that is a tracked Measure
NamesTrackedBill(ms, doc, congress) ==
    /\ doc.names # NamesNoBill
    /\ \E m \in ms :
          m.canonical_key = FederalCanonicalKey(congress, doc.names.bill_type,
                                                doc.names.bill_number)

\* C8: every stored VoteEvent references an existing Measure and every
\* OfficialVote an existing VoteEvent, and a document whose citation is
\* missing, names no bill or names a bill that is no Measure leaves no
\* VoteEvent with its idempotency key in the store.
C8_OnlyLinkedVotesStored ==
    [][/\ \A e \in voteEvents' : \E m \in measures' : m.id = e.measure_id
       /\ \A v \in officialVotes' : \E e \in voteEvents' : e.id = v.vote_event_id
       /\ hist'.op \in RollOps =>
            \A n \in DocNumbers(hist'.args) :
                LET doc == hist'.args.responses[n].doc
                    key == ExternalIdOf(hist'.op, hist'.args, n)
                IN  (/\ ~NamesTrackedBill(measures, doc, hist'.args.congress)
                     /\ ExistingVoteEvent(voteEvents, key) = {})
                    => ExistingVoteEvent(voteEvents', key) = {}]_vars

\* the members listed by the documents of a Senate ingestion
DocMembers(inp) ==
    UNION { { [n |-> n, member |-> inp.responses[n].doc.members[k]] :
                k \in 1..Len(inp.responses[n].doc.members) } :
            n \in DocNumbers(inp) }

MemberKey(member) == <<Lower(Strip(member.last_name)), Upper(Strip(member.state))>>

\* the case of a member: the identifier is on file for no Official, a
\* senator has the member's last name and state, and the member's document
\* resolves to a Measure and is not stored yet
IsFallbackCase(offs, events, ms, inp, x) ==
    LET doc == inp.responses[x.n].doc
        lis_id == Strip(x.member.lis_member_id)
    IN  /\ lis_id # <<>>
        /\ \A o \in offs : o.lis_member_id # lis_id
        /\ \E o \in offs : o.chamber = "us_senate" /\ SenatorKey(o) = MemberKey(x.member)
        /\ ExistingVoteEvent(events, SenateExternalId(inp.congress, inp.session, x.n)) = {}
        /\ ~Falsy(doc.document_name)
        /\ MatchBillToMeasure(ms, doc.document_name, inp.congress).found

\* C6: in a Senate ingestion, a member whose identifier is on file for no
\* Official and whose last name and state are those of a senator has the
\* vote stored as an OfficialVote of such a senator, and a senator who had
\* no lis_member_id carries afterwards the identifier of a member of that
\* last name and state.
C6_FallbackMatchBackfills ==
    [][hist'.op = "senate" =>
        \A x \in DocMembers(hist'.args) :
            IsFallbackCase(officials, voteEvents, measures, hist'.args, x) =>
                \E o \in officials :
                    /\ o.chamber = "us_senate" /\ SenatorKey(o) = MemberKey(x.member)
                    /\ \E e \in voteEvents' :
                          /\ e.external_id = SenateExternalId(hist'.args.congress,
                                                 hist'.args.session, x.n)
                          /\ NewOfficialVote(e.id, o.id,
                                 VoteMap(Lower(Strip(x.member.vote_cast))))
                               \in officialVotes'
                    /\ \E p \in officials' :
                          /\ p.id = o.id
                          /\ (Falsy(o.lis_member_id) =>
                                \E y \in DocMembers(hist'.args) :
                                    /\ MemberKey(y.member) = SenatorKey(o)
                                    /\ p.lis_member_id = Strip(y.member.lis_member_id))]_vars

-----------------------------------------------------------------------------
(* services/match_engine.py                                                *)

MaxComputes == 2    \* match computations in one behaviour

\* round(num / den, 3) counted in thousandths, and round(num / den * 100, 1)
\* counted in tenths of a percent: the integer nearest to 1000 * num / den,
\* a tie going to the even neighbour
RoundHalfEven(num, den) ==
    LET q == (1000 * num) \div den
        r == (1000 * num) % den
    IN IF 2 * r < den THEN q
       ELSE IF 2 * r > den THEN q + 1
       ELSE IF q % 2 = 0 THEN q ELSE q + 1

\* a float score, in thousandths; a score of None is the other case
Score(milli) == [null |-> FALSE, milli |-> milli]
NullScore == [null |-> TRUE, milli |-> 0]

\* select(Official).join(UserOfficial).where(user_id == ..., active == True)
ActiveOfficials(offs, uos, user_id) ==
    {o \in offs : \E uo \in uos :
        uo.user_id = user_id /\ uo.official_id = o.id /\ uo.active}

\* {ov.official_id: ov.vote for ov in official_votes}: when an official has a
\* row in several of the vote events, the row that comes last wins, and the
\* rows come in any order
OfficialVoteMaps(ovs, vote_event_ids) ==
    LET rows == {ov \in ovs : ov.vote_event_id \in vote_event_ids}
        ids == {ov.official_id : ov \in rows}
    IN {f \in [ids -> {ov.vote : ov \in rows}] :
          \A id \in ids : \E ov \in rows : ov.official_id = id /\ ov.vote = f[id]}

\* not official_vote_value or official_vote_value == "unknown"
VoteNotRecorded(official_vote_map, official_id) ==
    \/ official_id \notin DOMAIN official_vote_map
    \/ official_vote_map[official_id] = ""
    \/ official_vote_map[official_id] = "unknown"

\* the stored votes are lower case already, so lower() leaves them
IsMatch(user_vote, official_vote) ==
    \/ user_vote = "yes" /\ official_vote = "yea"
    \/ user_vote = "no" /\ official_vote = "nay"

\* f"Matched {matches} of {total} officials"
MatchNotes(matches, total) ==
    <<"M","a","t","c","h","e","d"," ">> \o NatToStr(matches) \o <<" ","o","f"," ">> \o NatToStr(total) \o <<" ","o","f","f","i","c","i","a","l","s">>

MatchScoreMut(matches, total) ==
    IF total > 0 THEN Score(RoundHalfEven(matches, total)) ELSE Score(1000)

\* round(matches / total if total > 0 else 0.0, 3)
MatchScore(matches, total) ==
    IF total > 0 THEN Score(RoundHalfEven(matches, total)) ELSE Score(0)

BreakdownEntry(official, official_vote_map, user_vote) ==
    IF VoteNotRecorded(official_vote_map, official.id)
    THEN [official_id |-> NatToStr(official.id), name |-> official.name,
          office |-> official.office,
          official_vote |-> IF official.id \in DOMAIN official_vote_map
                               /\ official_vote_map[official.id] # ""
                            THEN official_vote_map[official.id] ELSE "unknown",
          matches_user |-> FALSE, note |-> <<"V","o","t","e"," ","n","o","t"," ","r","e","c","o","r","d","e","d">>]
    ELSE [official_id |-> NatToStr(official.id), name |-> official.name,
          office |-> official.office,
          official_vote |-> official_vote_map[official.id],
          matches_user |-> IsMatch(user_vote, official_vote_map[official.id])]

\* _compute_user_match; the breakdown list is kept as the set of its entries,
\* the officials coming in no stated order
ComputeUserMatch(user_vote, offs, uos, official_vote_map) ==
    LET user_officials == ActiveOfficials(offs, uos, user_vote.user_id)
        counted == {o \in user_officials : ~VoteNotRecorded(official_vote_map, o.id)}
        matches == Cardinality({o \in counted :
                                  IsMatch(user_vote.vote, official_vote_map[o.id])})
        total == Cardinality(counted)
    IN IF user_officials = {}
       THEN [score |-> Score(0), breakdown |-> [officials |-> {}],
             notes |-> <<"N","o"," ","o","f","f","i","c","i","a","l","s"," ","f","o","u","n","d"," ","f","o","r"," ","u","s","e","r">>]
       ELSE [score |-> MatchScore(matches, total),
             breakdown |-> [officials |->
                 {BreakdownEntry(o, official_vote_map, user_vote.vote) : o \in user_officials}],
             notes |-> MatchNotes(matches, total)]

NewMatchResult(user_id, measure_id, res) ==
    [user_id |-> user_id, measure_id |-> measure_id, match_score |-> res.score,
     breakdown |-> res.breakdown, notes |-> res.notes]

\* db.get(MatchResult, (user_id, measure_id)), then update or add
UpsertMatchResult(mrs, user_id, measure_id, res) ==
    {m \in mrs : ~(m.user_id = user_id /\ m.measure_id = measure_id)}
        \cup {NewMatchResult(user_id, measure_id, res)}

RECURSIVE UpsertMatchResults(_, _, _, _, _, _)
UpsertMatchResults(mrs, user_votes, measure_id, offs, uos, official_vote_map) ==
    IF user_votes = {} THEN mrs
    ELSE LET uv == CHOOSE x \in user_votes : TRUE IN
         UpsertMatchResults(
             UpsertMatchResult(mrs, uv.user_id, measure_id,
                               ComputeUserMatch(uv, offs, uos, official_vote_map)),
             user_votes \ {uv}, measure_id, offs, uos, official_vote_map)

\* compute_matches_for_measure: the match_results table it leaves, the
\* count it returns and whether it raises; commit_fails is a commit that
\* raises, which the except block answers with rollback and return 0
ComputeMatchesResult(ms, events, ovs, uvs, offs, uos, mrs, measure_id, official_vote_map, commit_fails) ==
    LET vote_events == {e \in events : e.measure_id = measure_id}
        user_votes == {uv \in uvs : uv.measure_id = measure_id}
    IN IF ~\E m \in ms : m.id = measure_id
         THEN [matchResults |-> mrs, returned |-> 0, raised |-> FALSE, commit_failed |-> FALSE]
       ELSE IF vote_events = {}
         THEN [matchResults |-> mrs, returned |-> 0, raised |-> FALSE, commit_failed |-> FALSE]
       ELSE IF user_votes = {}
         THEN [matchResults |-> mrs, returned |-> 0, raised |-> FALSE, commit_failed |-> FALSE]
       ELSE IF commit_fails
         THEN [matchResults |-> mrs, returned |-> 0, raised |-> FALSE, commit_failed |-> TRUE]
       ELSE [matchResults |-> UpsertMatchResults(mrs, user_votes, measure_id, offs, uos,
                                                 official_vote_map),
             returned |-> Cardinality(user_votes), raised |-> FALSE,
             commit_failed |-> FALSE]

ComputeMatchesForMeasure(measure_id, commit_fails) ==
    /\ hist.n < MaxComputes
    /\ \E official_vote_map \in
            OfficialVoteMaps(officialVotes,
                             {e.id : e \in {x \in voteEvents : x.measure_id = measure_id}}) :
         LET r == ComputeMatchesResult(measures, voteEvents, officialVotes, userVotes,
                                       officials, userOfficials, matchResults, measure_id,
                                       official_vote_map, commit_fails)
         IN /\ matchResults' = r.matchResults
            /\ hist' = [op |-> "compute", measure_id |-> measure_id,
                        returned |-> r.returned, raised |-> r.raised,
                        commit_failed |-> r.commit_failed, n |-> hist.n + 1]
    /\ UNCHANGED <<measures, measureSources, runs, officials, voteEvents, officialVotes,
                   userVotes, userOfficials, userProfiles, cache, nextId, probe, connectors, workers>>

-----------------------------------------------------------------------------
(* The match engine over a store drawn from bounded sets: measure 1 was     *)
(* voted on in both chambers; user 31 is linked to two representatives and  *)
(* a senator, each link active or not; user 32 has no official at all.      *)

\* the values of column official_votes.vote
OfficialVoteValues ==
    {"yea", "nay", "abstain", "absent", "present", "not_voting", "unknown"}

NewUserVote(id, user_id, measure_id, vote, created_at) ==
    [id |-> id, user_id |-> user_id, measure_id |-> measure_id, vote |-> vote,
     created_at |-> created_at]

NewUserOfficial(user_id, official_id, active) ==
    [user_id |-> user_id, official_id |-> official_id, active |-> active]

MatchVoteEvents ==
    {NewVoteEvent(21, 1, "U.S. House", HouseExternalId(CURRENT_CONGRESS, 1, 1), None, "passed"),
     NewVoteEvent(22, 1, "U.S. Senate", SenateExternalId(CURRENT_CONGRESS, 1, 1), None, "passed")}

\* the vote event in which an official of the chamber has a row
EventOfOfficial(o) == IF o.chamber = "us_house" THEN 21 ELSE 22

MatchOfficials == {Rep1, Rep2, Sen1}

InitMatch ==
    /\ measures = RollCatalogue
    /\ measureSources = {} /\ runs = {}
    /\ connectors = {} /\ workers = <<>>
    /\ officials = MatchOfficials
    /\ voteEvents = MatchVoteEvents
    /\ \E recorded \in [MatchOfficials -> OfficialVoteValues \cup {"no row"}] :
          officialVotes = {NewOfficialVote(EventOfOfficial(o), o.id, recorded[o]) :
                             o \in {x \in MatchOfficials : recorded[x] # "no row"}}
    /\ \E v \in {"yes", "no", "no vote"} :
          userVotes = (IF v = "no vote" THEN {} ELSE {NewUserVote(33, 31, 1, v, 1)})
                        \cup {NewUserVote(34, 32, 1, "yes", 2)}
    /\ \E active \in [MatchOfficials -> BOOLEAN] :
          userOfficials = {NewUserOfficial(31, o.id, active[o]) : o \in MatchOfficials}
    /\ userProfiles = {} /\ matchResults = {}
    /\ cache = <<>> /\ nextId = 41
    /\ hist = [op |-> "init", measure_id |-> 0, returned |-> 0, raised |-> FALSE,
               commit_failed |-> FALSE, n |-> 0]
    /\ probe = <<>>

NextMatch ==
    \E measure_id \in 1..3, commit_fails \in BOOLEAN :
        ComputeMatchesForMeasure(measure_id, commit_fails)

SpecMatch == InitMatch /\ [][NextMatch]_vars

-----------------------------------------------------------------------------
(* Properties of the match computation                                     *)

\* the votes that user 31's active officials have on record, by official
RecordedVote(o) ==
    IF \E ov \in officialVotes : ov.official_id = o.id
    THEN (CHOOSE ov \in officialVotes : ov.official_id = o.id).vote
    ELSE "no row"

ResultOf(user_id, measure_id) ==
    CHOOSE m \in matchResults : m.user_id = user_id /\ m.measure_id = measure_id

HasResult(user_id, measure_id) ==
    \E m \in matchResults : m.user_id = user_id /\ m.measure_id = measure_id

\* C3: for a user who voted yes and whose active officials are on record with
\* yea, nay and absent, the stored result has score 0.5 over a comparable
\* total of 2: the absent official is left out of the denominator.
C3_AbsentExcluded ==
    (/\ HasResult(31, 1)
     /\ \E uv \in userVotes : uv.user_id = 31 /\ uv.measure_id = 1 /\ uv.vote = "yes"
     /\ ActiveOfficials(officials, userOfficials, 31) = MatchOfficials
     /\ {RecordedVote(o) : o \in MatchOfficials} = {"yea", "nay", "absent"})
        => /\ ResultOf(31, 1).match_score = Score(500)
           /\ ResultOf(31, 1).notes = MatchNotes(1, 2)

\* the votes the match computation cannot compare: no row, or "unknown"
NoComparableVote(user_id) ==
    \A o \in ActiveOfficials(officials, userOfficials, user_id) :
        RecordedVote(o) \in {"no row", "unknown"}

\* C5 (as stated): a user without active officials, or whose active officials
\* have no comparable vote on the measure, gets a null score.
C5_NullScore ==
    \A m \in matchResults :
        NoComparableVote(m.user_id) => m.match_score = NullScore

\* C5 (amended): a user without active officials, or whose active officials
\* have no comparable vote on the measure, gets the score 0.0, and the
\* computation returns the number of users it scored.
C5_ZeroScore ==
    /\ \A m \in matchResults :
          NoComparableVote(m.user_id) => m.match_score = Score(0)
    /\ (hist.op = "compute" /\ matchResults # {})
          => \A uv \in userVotes : uv.measure_id = 1 => HasResult(uv.user_id, 1)

\* both zero-denominator cases scored in one computation: user 32 has no
\* official, user 31 has active officials without a comparable vote
C5_Witness ==
    /\ hist.op = "compute" /\ hist.returned = 2
    /\ HasResult(32, 1) /\ ResultOf(32, 1).match_score = Score(0)
    /\ HasResult(31, 1) /\ ResultOf(31, 1).match_score = Score(0)
    /\ ActiveOfficials(officials, userOfficials, 31) # {}
    /\ NoComparableVote(31)
    /\ ResultOf(31, 1).notes = MatchNotes(0, 0)

-----------------------------------------------------------------------------
(* core/cache.py: the Redis cache as [up, entries]; entries is a dict from  *)
(* key to the stored JSON text and its time to live                         *)

\* f"user:{user_id}:reps"
reps_key(user_id) == <<"u","s","e","r",":">> \o NatToStr(user_id) \o <<":","r","e","p","s">>

\* f"user:{user_id}:dashboard"
dashboard_key(user_id) == <<"u","s","e","r",":">> \o NatToStr(user_id) \o <<":","d","a","s","h","b","o","a","r","d">>

\* json.dumps(value, default=str) and json.loads(raw): the responses hold
\* numbers, text, booleans and None, which the round trip gives back
JsonDumps(value) == [json |-> value]
JsonLoads(raw) == raw.json

\* cache_get: None (here: no hit) without Redis or without the key
CacheHit(c, key) == c.up /\ DictHas(c.entries, key)
cache_get(c, key) == JsonLoads(DictGet(c.entries, key).raw)

\* cache_set without the "if r is None: return" of its second line
cache_set_unguarded(c, key, value, ttl) ==
    [c EXCEPT !.entries = DictPut(@, key, [raw |-> JsonDumps(value), ttl |-> ttl])]

\* cache_set: r.set(key, json.dumps(value), ex=ttl); nothing without Redis
cache_set(c, key, value, ttl) ==
    IF ~c.up THEN c
    ELSE [c EXCEPT !.entries = DictPut(@, key, [raw |-> JsonDumps(value), ttl |-> ttl])]

\* cache_delete: r.delete(key); nothing without Redis
cache_delete(c, key) ==
    IF ~c.up THEN c
    ELSE [c EXCEPT !.entries = {e \in @ : e.k # key}]

-----------------------------------------------------------------------------
(* api/v1/endpoints/dashboard.py                                           *)

\* round((matches / total) * 100, 1) in tenths of a percent, or None
Pct(matches, total) ==
    IF total > 0 THEN [null |-> FALSE, tenths |-> RoundHalfEven(matches, total)]
    ELSE [null |-> TRUE, tenths |-> 0]

\* Measure.external_id.like("%-hr-%") | ... for the four House bill types
IsHouseMeasure(m) ==
    /\ m.level = "federal"
    /\ \/ Contains(m.external_id, <<"-","h","r","-">>)
       \/ Contains(m.external_id, <<"-","h","j","r","e","s","-">>)
       \/ Contains(m.external_id, <<"-","h","c","o","n","r","e","s","-">>)
       \/ Contains(m.external_id, <<"-","h","r","e","s","-">>)

IsSenateMeasure(m) ==
    /\ m.level = "federal"
    /\ \/ Contains(m.external_id, <<"-","s","-">>)
       \/ Contains(m.external_id, <<"-","s","j","r","e","s","-">>)
       \/ Contains(m.external_id, <<"-","s","c","o","n","r","e","s","-">>)
       \/ Contains(m.external_id, <<"-","s","r","e","s","-">>)

IsFederalMeasure(m) == m.level = "federal"

HasOutcome(m) == m.status \in {"passed", "failed"}

AlignmentMatch(uv, m) ==
    \/ uv.vote = "yes" /\ m.status = "passed"
    \/ uv.vote = "no" /\ m.status = "failed"

\* UserVote joined with Measure for one user: pairs <<uv, m>>
UserVoteRows(uvs, ms, user_id) ==
    {<<uv, m>> \in uvs \X ms : uv.user_id = user_id /\ uv.measure_id = m.id}

\* order_by(UserVote.created_at.desc()).limit(5)
RECURSIVE RecentRows(_, _)
RecentRows(rows, limit) ==
    IF rows = {} \/ limit = 0 THEN <<>>
    ELSE LET top == CHOOSE r \in rows : \A q \in rows : q[1].created_at <= r[1].created_at
         IN <<top>> \o RecentRows(rows \ {top}, limit - 1)

RecentActivity(row) ==
    [measure_id |-> row[2].id, title |-> row[2].title, level |-> row[2].level,
     user_vote |-> row[1].vote, voted_at |-> row[1].created_at,
     outcome |-> IF HasOutcome(row[2]) THEN row[2].status ELSE "None"]

\* the response get_dashboard computes from the tables
DashboardResponse(uvs, ms, user_id) ==
    LET rows == UserVoteRows(uvs, ms, user_id)
        count(P(_)) == Cardinality({r \in rows : P(r)})
        isYes(r) == r[1].vote = "yes"
        isNo(r) == r[1].vote = "no"
        isSkip(r) == r[1].vote = "skip"
        passed(r) == r[2].status = "passed"
        failed(r) == r[2].status = "failed"
        pending(r) == r[2].status \notin {"passed", "failed"}
        outcome(r) == HasOutcome(r[2])
        match(r) == AlignmentMatch(r[1], r[2])
        houseT(r) == IsHouseMeasure(r[2]) /\ HasOutcome(r[2])
        houseM(r) == houseT(r) /\ AlignmentMatch(r[1], r[2])
        senateT(r) == IsSenateMeasure(r[2]) /\ HasOutcome(r[2])
        senateM(r) == senateT(r) /\ AlignmentMatch(r[1], r[2])
        congressT(r) == IsFederalMeasure(r[2]) /\ HasOutcome(r[2])
        congressM(r) == congressT(r) /\ AlignmentMatch(r[1], r[2])
        recent == RecentRows(rows, 5)
    IN [stats |->
          [total_votes |-> Cardinality(rows),
           yea_votes |-> count(isYes), nay_votes |-> count(isNo),
           skipped |-> count(isSkip),
           measures_passed |-> count(passed), measures_failed |-> count(failed),
           measures_pending |-> count(pending),
           alignment_score |-> Pct(count(match), count(outcome)),
           house_alignment |-> Pct(count(houseM), count(houseT)),
           senate_alignment |-> Pct(count(senateM), count(senateT)),
           congress_alignment |-> Pct(count(congressM), count(congressT))],
        recent_activity |-> [i \in 1..Len(recent) |-> RecentActivity(recent[i])]]

-----------------------------------------------------------------------------
(* api/v1/endpoints/representatives.py                                     *)

\* _compute_all_alignments: official votes joined with their vote event and
\* with the user's vote on the event's measure, grouped by official
AlignmentRows(uvs, events, ovs, user_id, official_id) ==
    {<<ov, uv>> \in ovs \X uvs :
        /\ ov.official_id = official_id
        /\ uv.user_id = user_id
        /\ \E e \in events : e.id = ov.vote_event_id /\ e.measure_id = uv.measure_id}

IsComparable(official_vote) ==
    official_vote \notin {"unknown", "absent", "not_voting", "present"}

\* alignment_map.get(official.id, (None, 0))
Alignment(uvs, events, ovs, user_id, official_id) ==
    LET rows == AlignmentRows(uvs, events, ovs, user_id, official_id)
        counted == {r \in rows : IsComparable(r[1].vote)}
        matches == Cardinality({r \in counted : IsMatch(r[2].vote, r[1].vote)})
        total == Cardinality(counted)
    IN [alignment_percentage |-> Pct(matches, total),
        votes_compared |-> IF total > 0 THEN total ELSE 0]

RepresentativeItem(o, uvs, events, ovs, user_id) ==
    LET a == Alignment(uvs, events, ovs, user_id, o.id) IN
    [id |-> o.id, name |-> o.name,
     office |-> IF o.office = None THEN <<>> ELSE o.office,
     party |-> o.party, chamber |-> o.chamber, district_label |-> o.district_label,
     photo_url |-> o.photo_url,
     alignment_percentage |-> a.alignment_percentage,
     votes_compared |-> a.votes_compared]

\* the response get_representatives computes from the tables and the time
\* to live it caches it with; the list is kept as the set of its items
RepresentativesResponse(profiles, offs, uos, uvs, events, ovs, user_id) ==
    LET active == ActiveOfficials(offs, uos, user_id) IN
    IF ~\E p \in profiles : p.user_id = user_id
    THEN [resp |-> [representatives |-> {}, has_address |-> FALSE], ttl |-> 60]
    ELSE IF active = {}
    THEN [resp |-> [representatives |-> {}, has_address |-> TRUE], ttl |-> 60]
    ELSE [resp |-> [representatives |->
                       {RepresentativeItem(o, uvs, events, ovs, user_id) : o \in active},
                    has_address |-> TRUE],
          ttl |-> 300]

-----------------------------------------------------------------------------
(* services/congress_api.py: refresh_user_representatives                   *)

\* _upsert_official over the officials table; gives the table and the id
UpsertOfficial(offs, id, rep) ==
    LET external_id == <<"c","o","n","g","r","e","s","s",":">> \o rep.bioguide_id
        found == {o \in offs : o.external_id = external_id}
    IN IF found # {}
       THEN LET o == CHOOSE x \in found : TRUE
                upd == [o EXCEPT !.name = rep.name, !.party = rep.party,
                                 !.office = rep.office, !.chamber = rep.chamber,
                                 !.district_label = rep.district_label,
                                 !.photo_url = rep.photo_url]
            IN [officials |-> (offs \ {o}) \cup {upd}, id |-> o.id, nextId |-> id]
       ELSE [officials |-> offs \cup
                {[NewOfficial(id, external_id, rep.name, rep.party, rep.office,
                              rep.chamber, rep.district_label, None, None)
                    EXCEPT !.photo_url = rep.photo_url]},
             id |-> id, nextId |-> id + 1]

RECURSIVE UpsertOfficials(_, _)
UpsertOfficials(st, reps) ==
    IF reps = <<>> THEN st
    ELSE LET r == UpsertOfficial(st.officials, st.nextId, Head(reps))
         IN UpsertOfficials([officials |-> r.officials, nextId |-> r.nextId,
                             official_ids |-> Append(st.official_ids, r.id)],
                            Tail(reps))

\* _replace_user_officials: the links after the flush, or a flush that fails.
\* A link added for an id is pending, so a second occurrence of the id in the
\* list does not find it and adds it again: the flush then violates the
\* primary key.
ReplaceUserOfficials(uos, user_id, official_ids) ==
    LET ids == {official_ids[i] : i \in 1..Len(official_ids)}
        linked == {uo.official_id : uo \in {x \in uos : x.user_id = user_id}}
        twice == {id \in ids \ linked :
                    \E i, j \in 1..Len(official_ids) :
                        i # j /\ official_ids[i] = id /\ official_ids[j] = id}
    IN IF twice # {} THEN [raised |-> TRUE, userOfficials |-> uos]
       ELSE [raised |-> FALSE,
             userOfficials |->
                {IF uo.user_id = user_id
                 THEN [uo EXCEPT !.active = (uo.official_id \in ids)] ELSE uo : uo \in uos}
                \cup {NewUserOfficial(user_id, id, TRUE) : id \in ids \ linked}]

-----------------------------------------------------------------------------
(* The endpoints that write a user's votes and officials, and the two       *)
(* cached reads. hist keeps, beside the last call and its response, the     *)
(* number of changes made to the user's votes or active officials (epoch)   *)
(* and, for each cached key, the epoch at which its value was computed      *)
(* (stamps); read_at is the epoch at which the returned value was computed. *)

MaxChanges == 3     \* calls of the writing endpoints in one behaviour

\* the history after a call that is not a read
AfterWrite(op, status, c, changed) ==
    [op |-> op, status |-> status, from_cache |-> FALSE, resp |-> <<>>,
     read_at |-> hist.read_at,
     epoch |-> IF changed THEN hist.epoch + 1 ELSE hist.epoch,
     calls |-> hist.calls + 1,
     stamps |-> {s \in hist.stamps : DictHas(c.entries, s.k)}]

\* the history after a read that computed resp, or took it from the cache
AfterRead(op, c, key, hit, resp) ==
    [op |-> op, status |-> 200, from_cache |-> hit, resp |-> resp,
     read_at |-> IF hit THEN DictGet(hist.stamps, key) ELSE hist.epoch,
     epoch |-> hist.epoch,
     calls |-> hist.calls,
     stamps |-> IF hit \/ ~c.up THEN hist.stamps
                ELSE DictPut(hist.stamps, key, hist.epoch)]

\* POST /measures/{measure_id}/swipe
Swipe(user_id, measure_id, vote) ==
    /\ hist.calls < MaxChanges
    /\ IF ~\E m \in measures : m.id = measure_id
       THEN /\ UNCHANGED <<userVotes, cache, nextId>>
            /\ hist' = AfterWrite("swipe", 404, cache, FALSE)
       ELSE LET existing == {uv \in userVotes :
                               uv.user_id = user_id /\ uv.measure_id = measure_id}
                c == cache_delete(cache, reps_key(user_id))
            IN IF existing # {}
               THEN /\ userVotes' = {IF uv \in existing THEN [uv EXCEPT !.vote = vote]
                                     ELSE uv : uv \in userVotes}
                    /\ nextId' = nextId
                    /\ cache' = c
                    /\ hist' = AfterWrite("swipe", 200, c, userVotes' # userVotes)
               ELSE /\ userVotes' = userVotes \cup
                          {NewUserVote(nextId, user_id, measure_id, vote, nextId)}
                    /\ nextId' = nextId + 1
                    /\ cache' = c
                    /\ hist' = AfterWrite("swipe", 200, c, TRUE)
    /\ UNCHANGED <<measures, measureSources, runs, officials, voteEvents, officialVotes,
                   userOfficials, userProfiles, matchResults, probe, connectors, workers>>

\* PUT /my-votes/{measure_id}
UpdateVote(user_id, measure_id, vote) ==
    /\ hist.calls < MaxChanges
    /\ LET existing == {uv \in userVotes :
                          uv.user_id = user_id /\ uv.measure_id = measure_id}
       IN IF (~\E m \in measures : m.id = measure_id) \/ existing = {}
          THEN /\ UNCHANGED userVotes
               /\ hist' = AfterWrite("update_vote", 404, cache, FALSE)
          ELSE /\ userVotes' = {IF uv \in existing THEN [uv EXCEPT !.vote = vote]
                                ELSE uv : uv \in userVotes}
               /\ hist' = AfterWrite("update_vote", 200, cache, userVotes' # userVotes)
    /\ UNCHANGED <<measures, measureSources, runs, officials, voteEvents, officialVotes,
                   userOfficials, userProfiles, matchResults, cache, nextId, probe, connectors, workers>>

\* POST /representatives/refresh; reps is what the Congress.gov and Census
\* lookups gave: the senators of the state and the district's representative
RefreshRepresentatives(user_id, reps) ==
    /\ hist.calls < MaxChanges
    /\ IF ~\E p \in userProfiles : p.user_id = user_id
       THEN /\ UNCHANGED <<officials, userOfficials, cache, nextId>>
            /\ hist' = AfterWrite("refresh", 400, cache, FALSE)
       ELSE IF reps = <<>>
       THEN /\ UNCHANGED <<officials, userOfficials, cache, nextId>>
            /\ hist' = AfterWrite("refresh", 200, cache, FALSE)
       ELSE LET st == UpsertOfficials([officials |-> officials, nextId |-> nextId,
                                       official_ids |-> <<>>], reps)
                r == ReplaceUserOfficials(userOfficials, user_id, st.official_ids)
                c == cache_delete(cache, reps_key(user_id))
            IN IF r.raised
               THEN /\ UNCHANGED <<officials, userOfficials, cache, nextId>>
                    /\ hist' = AfterWrite("refresh", 500, cache, FALSE)
               ELSE /\ officials' = st.officials
                    /\ nextId' = st.nextId
                    /\ userOfficials' = r.userOfficials
                    /\ cache' = c
                    /\ hist' = AfterWrite("refresh", 200, c,
                          ActiveOfficials(st.officials, r.userOfficials, user_id)
                             # ActiveOfficials(officials, userOfficials, user_id))
    /\ UNCHANGED <<measures, measureSources, runs, voteEvents, officialVotes,
                   userVotes, userProfiles, matchResults, probe, connectors, workers>>

\* GET /dashboard
GetDashboard(user_id) ==
    LET key == dashboard_key(user_id)
        hit == CacheHit(cache, key)
        resp == IF hit THEN cache_get(cache, key)
                ELSE DashboardResponse(userVotes, measures, user_id)
    IN /\ cache' = IF hit THEN cache ELSE cache_set(cache, key, resp, 120)
       /\ hist' = AfterRead("get_dashboard", cache, key, hit, resp)
       /\ UNCHANGED <<measures, measureSources, runs, officials, voteEvents,
                      officialVotes, userVotes, userOfficials, userProfiles,
                      matchResults, nextId, probe, connectors, workers>>

\* GET /representatives
GetRepresentatives(user_id) ==
    LET key == reps_key(user_id)
        hit == CacheHit(cache, key)
        computed == RepresentativesResponse(userProfiles, officials, userOfficials,
                                            userVotes, voteEvents, officialVotes, user_id)
        resp == IF hit THEN cache_get(cache, key) ELSE computed.resp
    IN /\ cache' = IF hit THEN cache ELSE cache_set(cache, key, resp, computed.ttl)
       /\ hist' = AfterRead("get_representatives", cache, key, hit, resp)
       /\ UNCHANGED <<measures, measureSources, runs, officials, voteEvents,
                      officialVotes, userVotes, userOfficials, userProfiles,
                      matchResults, nextId, probe, connectors, workers>>

\* Redis drops a key whose time to live has run out
Expire(key) ==
    /\ cache.up /\ DictHas(cache.entries, key)
    /\ cache' = [cache EXCEPT !.entries = {e \in @ : e.k # key}]
    /\ hist' = [hist EXCEPT !.stamps = {s \in @ : s.k # key}]
    /\ UNCHANGED <<measures, measureSources, runs, officials, voteEvents,
                   officialVotes, userVotes, userOfficials, userProfiles,
                   matchResults, nextId, probe, connectors, workers>>

-----------------------------------------------------------------------------
(* One user, two tracked bills that were voted on, the officials known from *)
(* roll-call ingestion, Redis up or down, the user with or without address  *)

CacheCatalogue ==
    InsertAll({}, 1,
        << [type |-> <<"H","R">>, number |-> <<"5">>, congress |-> CURRENT_CONGRESS,
            title |-> <<"T">>, latestAction |-> Cap_passed],
           [type |-> <<"S">>, number |-> <<"5">>, congress |-> CURRENT_CONGRESS,
            title |-> <<"U">>, latestAction |-> T_failed] >>)

CacheVoteEvents ==
    {NewVoteEvent(21, 1, "U.S. House", HouseExternalId(CURRENT_CONGRESS, 1, 1), None, "passed"),
     NewVoteEvent(22, 2, "U.S. Senate", SenateExternalId(CURRENT_CONGRESS, 1, 1), None, "failed")}

CacheOfficialVotes ==
    {NewOfficialVote(21, 11, "yea"), NewOfficialVote(21, 12, "nay"),
     NewOfficialVote(22, 13, "nay")}

\* _parse_member: the dict of a member as the lookups return it
ApiRep(o, bioguide_id) ==
    [bioguide_id |-> bioguide_id, name |-> o.name, party |-> o.party,
     office |-> o.office, chamber |-> o.chamber, district_label |-> o.district_label,
     state |-> <<"U","T">>, photo_url |-> <<>>]

ApiNewSenator ==
    [bioguide_id |-> <<"C","5">>, name |-> <<"C","u","r","t","i","s",","," ","J","o","h","n">>, party |-> <<"R">>,
     office |-> T_us_senator, chamber |-> "us_senate", district_label |-> <<"U","T">>,
     state |-> <<"U","T">>, photo_url |-> <<>>]

RefreshInputs ==
    { <<>>,
      <<ApiRep(Sen1, <<"L","3">>), ApiRep(Rep1, <<"K","1">>)>>,
      <<ApiRep(Sen1, <<"L","3">>), ApiRep(Rep2, <<"R","2">>)>>,
      <<ApiNewSenator, ApiNewSenator>> }

NewUserProfile(user_id) ==
    [user_id |-> user_id, city |-> <<"P","r","o","v","o">>, state |-> <<"U","T">>, postal_code |-> <<"8","4","6","0","1">>]

CacheUsers == {31}

InitCache ==
    /\ measures = CacheCatalogue
    /\ measureSources = {} /\ runs = {}
    /\ connectors = {} /\ workers = <<>>
    /\ officials = MatchOfficials
    /\ voteEvents = CacheVoteEvents
    /\ officialVotes = CacheOfficialVotes
    /\ userVotes = {} /\ userOfficials = {}
    /\ userProfiles \in {{}, {NewUserProfile(31)}}
    /\ matchResults = {}
    /\ cache \in {[up |-> b, entries |-> {}] : b \in BOOLEAN}
    /\ nextId = 41
    /\ hist = [op |-> "init", status |-> 0, from_cache |-> FALSE, resp |-> <<>>,
               read_at |-> 0, epoch |-> 0, calls |-> 0, stamps |-> {}]
    /\ probe = <<>>

NextCache ==
    \/ \E u \in CacheUsers, m \in 1..3, v \in {"yes", "no"} : Swipe(u, m, v)
    \/ \E u \in CacheUsers, m \in 1..3, v \in {"yes", "no"} : UpdateVote(u, m, v)
    \/ \E u \in CacheUsers, reps \in RefreshInputs : RefreshRepresentatives(u, reps)
    \/ \E u \in CacheUsers : GetDashboard(u)
    \/ \E u \in CacheUsers : GetRepresentatives(u)
    \/ \E u \in CacheUsers : \E key \in {reps_key(u), dashboard_key(u)} : Expire(key)

SpecCache == InitCache /\ [][NextCache]_vars

-----------------------------------------------------------------------------
(* Properties of the cached reads                                          *)

ReadOps == {"get_dashboard", "get_representatives"}

\* C10: a read of the dashboard or of the representatives list never returns
\* a cached value that was computed before the latest change to the user's
\* votes or active officials.
C10_NoStaleRead ==
    (hist.op \in ReadOps /\ hist.from_cache) => hist.read_at = hist.epoch

-----------------------------------------------------------------------------
(* What a source answers to one request, and the connectors' fetch         *)
(* functions. A response is [kind, items]: "ok" is a JSON body whose list  *)
(* is items, "null" a JSON body whose list is null, "object" a JSON object *)
(* where a list was expected, "error" a network failure or an HTTP error   *)
(* status (raise_for_status).                                              *)

\* FederalConnector.get_recent_bills: data.get("bills", []), and [] when the
\* request raised. [null, items]: null stands for Python's None
FederalGetRecentBills(resp) ==
    IF resp.kind = "error" THEN [null |-> FALSE, items |-> <<>>]
    ELSE IF resp.kind = "null" THEN [null |-> TRUE, items |-> <<>>]
    ELSE [null |-> FALSE, items |-> resp.items]

\* FederalConnector.get_enacted_laws, one page: "if not laws: break" and
\* "except: break" both leave all_laws as it is
GetEnactedLaws(resp) == IF resp.kind = "ok" THEN resp.items ELSE <<>>

\* FederalConnector.get_house_roll_call_votes, one page
GetHouseRollCallVotes(resp) == IF resp.kind = "ok" THEN resp.items ELSE <<>>

\* ArizonaConnector.get_recent_bills: data.get("results", []), and [] when the
\* request raised
ArizonaGetRecentBills(resp) ==
    IF resp.kind = "error" THEN [null |-> FALSE, items |-> <<>>]
    ELSE IF resp.kind = "null" THEN [null |-> TRUE, items |-> <<>>]
    ELSE [null |-> FALSE, items |-> resp.items]

\* PhoenixLegistarConnector._scrape_calendar: the events of the calendar page,
\* [] when the page cannot be fetched
ScrapeCalendar(page) == IF page.kind = "ok" THEN page.items ELSE <<>>

\* PhoenixLegistarConnector.get_upcoming_events: _fetch_api gives None when
\* the request raised; "if data: return data", else the scraped calendar.
\* [sliceable, items]
GetUpcomingEvents(resp, page) ==
    IF resp.kind = "object" THEN [sliceable |-> FALSE, items |-> <<>>]
    ELSE IF resp.kind = "ok" /\ resp.items # <<>>
    THEN [sliceable |-> TRUE, items |-> resp.items]
    ELSE [sliceable |-> TRUE, items |-> ScrapeCalendar(page)]

\* str(e) of the exceptions the run bodies raise outside the per-record try
E_no_len == <<"o","b","j","e","c","t"," ","o","f"," ","t","y","p","e"," ","'","N","o","n","e","T","y","p","e","'"," ","h","a","s"," ","n","o"," ","l","e","n","(",")">>
E_not_iterable == <<"'","N","o","n","e","T","y","p","e","'"," ","o","b","j","e","c","t"," ","i","s"," ","n","o","t"," ","i","t","e","r","a","b","l","e">>
E_slice == <<"u","n","h","a","s","h","a","b","l","e"," ","t","y","p","e",":"," ","'","s","l","i","c","e","'">>

-----------------------------------------------------------------------------
(* The connectors' run(): the try block, from the fetch to the last record *)
(* [ctx, raised, error]: raised when an exception leaves the try block     *)

Completed(ctx) == [ctx |-> ctx, raised |-> FALSE, error |-> None]
Aborted(ctx, error) == [ctx |-> ctx, raised |-> TRUE, error |-> error]

\* FederalConnector.run, fetch_all: "for bill in recent_bills" raises on None
FederalRecentOrAbort(ctx, recent, congress) ==
    IF recent.null THEN Aborted(ctx, E_not_iterable)
    ELSE Completed(FederalRecentLoop(ctx, recent.items, congress))

\* FederalConnector.run, default mode: len(bills) raises on None
FederalDefaultOrAbort(ctx, bills, congress) ==
    IF bills.null THEN Aborted(ctx, E_no_len)
    ELSE Completed(FederalDefaultLoop(
             [ctx EXCEPT !.stats.bills_fetched = Len(bills.items)],
             bills.items, congress))

\* FederalConnector.run, fetch_all: the laws and the House votes
FederalLawsAndVotes(ctx, laws, house_votes, congress) ==
    FederalHouseVoteLoop(
        FederalLawLoop([ctx EXCEPT !.stats.laws_fetched = Len(laws)], laws, congress),
        house_votes, congress)

\* FederalConnector.run, the try block; f is what the three endpoints answer
FederalTry(ctx, f) ==
    IF f.fetch_all
    THEN FederalRecentOrAbort(
             FederalLawsAndVotes(ctx, GetEnactedLaws(f.laws),
                                 GetHouseRollCallVotes(f.house_votes), f.congress),
             FederalGetRecentBills(f.bills), f.congress)
    ELSE FederalDefaultOrAbort(ctx, FederalGetRecentBills(f.bills), f.congress)

\* ArizonaConnector.run, the try block: pages[page] is what the source
\* answers to the request for that page
RECURSIVE ArizonaTry(_, _)
ArizonaTry(ctx, pages) ==
    IF pages = <<>> THEN Completed(ctx)
    ELSE LET bills == ArizonaGetRecentBills(Head(pages))
         IN  IF bills.null THEN Aborted(ctx, E_no_len)
             ELSE ArizonaTry(
                      ArizonaBillLoop(
                          [ctx EXCEPT !.stats.bills_fetched = @ + Len(bills.items)],
                          bills.items),
                      Tail(pages))

\* PhoenixLegistarConnector.run, the try block
PhoenixTry(ctx, f) ==
    LET fetched == GetUpcomingEvents(f.events, f.calendar)
        events == SubSeq(fetched.items, 1,
                         IF Len(fetched.items) < f.max_events
                         THEN Len(fetched.items) ELSE f.max_events)
    IN  IF ~fetched.sliceable THEN Aborted(ctx, E_slice)
        ELSE Completed(PhoenixEventLoop(
                 [ctx EXCEPT !.stats.events_fetched = Len(events)], events))

\* the except block without run.error = str(e)
FailRunMut(ctx, runId, name, allRuns, error) ==
    IF ctx.ok
    THEN [measures |-> ctx.measures, sources |-> ctx.sources,
          runs |-> allRuns \cup {[id |-> runId, connector |-> name,
                                  status |-> "failed", finished |-> TRUE,
                                  error |-> None, stats |-> ctx.stats]},
          nextId |-> ctx.nextId, returned |-> FALSE, stats |-> ctx.stats]
    ELSE [measures |-> ctx.base.measures, sources |-> ctx.base.sources,
          runs |-> allRuns, nextId |-> runId, returned |-> FALSE,
          stats |-> ctx.stats]

\* run(), the except block: run.status = "failed", finished_at, error and
\* stats are set and committed, together with what the session holds. With
\* the session unusable the commit raises and nothing of the run is stored.
FailRun(ctx, runId, name, allRuns, error) ==
    IF ctx.ok
    THEN [measures |-> ctx.measures, sources |-> ctx.sources,
          runs |-> allRuns \cup {[id |-> runId, connector |-> name,
                                  status |-> "failed", finished |-> TRUE,
                                  error |-> error, stats |-> ctx.stats]},
          nextId |-> ctx.nextId, returned |-> FALSE, stats |-> ctx.stats]
    ELSE [measures |-> ctx.base.measures, sources |-> ctx.base.sources,
          runs |-> allRuns, nextId |-> runId, returned |-> FALSE,
          stats |-> ctx.stats]

\* run(), after the try block
EndRun(t, runId, name, allRuns) ==
    IF t.raised THEN FailRun(t.ctx, runId, name, allRuns, t.error)
    ELSE FinishRun(t.ctx, runId, name, allRuns)

-----------------------------------------------------------------------------
(* The run lifecycle: the Celery workers that execute the ingestion tasks, *)
(* and the admin trigger. A task's run() is two steps, so that the steps   *)
(* of the other worker and of the admin endpoint fall between them: the    *)
(* creation of its run row (flushed, not committed), and the try block     *)
(* with the commit that ends it.                                           *)

worker_concurrency == 2
Workers == 1..worker_concurrency

ConnectorNames == {"congress", "arizona", "phoenix_legistar"}

MaxInvocations == 2    \* task starts and admin triggers in one behaviour

NewConnector(id, name, enabled) == [id |-> id, name |-> name, enabled |-> enabled]

\* IngestionRun(connector_id=connector.id, status="running", stats={})
NewIngestionRun(id, name) ==
    [id |-> id, connector |-> name, status |-> "running", finished |-> FALSE,
     error |-> None, stats |-> <<>>]

IdleWorker == [pc |-> "idle", name |-> "", run_id |-> 0, new_connector |-> FALSE]

\* _get_or_create_connector: select(Connector).where(Connector.name == name)
ConnectorByName(conns, name) == {c \in conns : c.name = name}

\* the runs in progress for a connector name: the committed rows in "running"
\* state and the rows the workers' sessions hold
RunningRows(name) == {r \in runs : r.connector = name /\ r.status = "running"}
WorkersOn(name) == {w \in Workers : workers[w].pc = "started" /\ workers[w].name = name}

\* a task starts on an idle worker: run() up to the flush of its run row.
\* The connector row is created when there is none; the unique index on
\* connectors.name makes that insert wait for a session that holds an
\* uncommitted row of the same name.
StartRun(w, name) ==
    /\ hist.n < MaxInvocations
    /\ workers[w].pc = "idle"
    /\ LET absent == ConnectorByName(connectors, name) = {}
       IN  /\ absent => ~\E v \in WorkersOn(name) : workers[v].new_connector
           /\ workers' = [workers EXCEPT ![w] =
                             [pc |-> "started", name |-> name,
                              run_id |-> IF absent THEN nextId + 1 ELSE nextId,
                              new_connector |-> absent]]
           /\ nextId' = IF absent THEN nextId + 2 ELSE nextId + 1
    /\ hist' = [op |-> "start", n |-> hist.n + 1, name |-> name, status |-> 0,
                run_id |-> workers'[w].run_id, fetch_failed |-> FALSE,
                stored |-> FALSE,
                others |-> Cardinality(WorkersOn(name)) + Cardinality(RunningRows(name))]
    /\ UNCHANGED <<measures, measureSources, runs, officials, voteEvents, officialVotes,
                   userVotes, userOfficials, userProfiles, matchResults, cache, probe,
                   connectors>>

\* the try block of the connector the worker runs
TryOf(name, ctx, f) ==
    CASE name = "congress" -> FederalTry(ctx, f)
      [] name = "arizona" -> ArizonaTry(ctx, f.pages)
      [] name = "phoenix_legistar" -> PhoenixTry(ctx, f)

NewStatsOf(name) ==
    CASE name = "congress" -> NewStats
      [] name = "arizona" -> NewArizonaStats
      [] name = "phoenix_legistar" -> NewPhoenixStats

\* every request of the run ended in a network failure or an HTTP error
FetchFailed(name, f) ==
    CASE name = "congress" ->
             /\ f.bills.kind = "error"
             /\ f.fetch_all => (f.laws.kind = "error" /\ f.house_votes.kind = "error")
      [] name = "arizona" -> \A i \in 1..Len(f.pages) : f.pages[i].kind = "error"
      [] name = "phoenix_legistar" -> f.events.kind = "error" /\ f.calendar.kind = "error"

\* the commit that ends run(): r is what EndRun gives. The connector row the
\* session created is committed with the run row.
CommitRun(w, name, f, r) ==
    /\ measures' = r.measures
    /\ measureSources' = r.sources
    /\ runs' = r.runs
    /\ nextId' = IF r.runs # runs THEN r.nextId ELSE nextId
    /\ connectors' = IF r.runs # runs /\ workers[w].new_connector
                     THEN connectors \cup {NewConnector(workers[w].run_id - 1, name, TRUE)}
                     ELSE connectors
    /\ hist' = [op |-> "run", n |-> hist.n, name |-> name, status |-> 0,
                run_id |-> workers[w].run_id,
                fetch_failed |-> FetchFailed(name, f), stored |-> r.runs # runs,
                others |-> 0]

\* the rest of run(): the try block over what the source answers (f), then
\* the commit of the succeeded or of the failed run row
CompleteRun(w, f) ==
    /\ workers[w].pc = "started"
    /\ CommitRun(w, workers[w].name, f,
                 EndRun(TryOf(workers[w].name,
                              NewContext(measures, measureSources, nextId,
                                         NewStatsOf(workers[w].name)), f),
                        workers[w].run_id, workers[w].name, runs))
    /\ workers' = [workers EXCEPT ![w] = IdleWorker]
    /\ UNCHANGED <<officials, voteEvents, officialVotes, userVotes, userOfficials,
                   userProfiles, matchResults, cache, probe>>

\* POST /admin/ingest/run: 404 without the connector, 400 when it is
\* disabled, else a committed run row in "running" state; no task is sent
TriggerIngestion(connector_name) ==
    /\ hist.n < MaxInvocations
    /\ LET connector == ConnectorByName(connectors, connector_name)
           status == IF connector = {} THEN 404
                     ELSE IF \E c \in connector : ~c.enabled THEN 400
                     ELSE 202
       IN  /\ runs' = IF status = 202
                      THEN runs \cup {NewIngestionRun(nextId, connector_name)}
                      ELSE runs
           /\ nextId' = IF status = 202 THEN nextId + 1 ELSE nextId
           /\ hist' = [op |-> "trigger", n |-> hist.n + 1, name |-> connector_name,
                       status |-> status, run_id |-> nextId, fetch_failed |-> FALSE,
                       stored |-> status = 202,
                       others |-> Cardinality(WorkersOn(connector_name))
                                    + Cardinality(RunningRows(connector_name))]
    /\ UNCHANGED <<measures, measureSources, officials, voteEvents, officialVotes,
                   userVotes, userOfficials, userProfiles, matchResults, cache, probe,
                   connectors, workers>>

-----------------------------------------------------------------------------
(* What the sources answer during the runs of the lifecycle                *)

Resp(kind, items) == [kind |-> kind, items |-> items]

\* a complete bill, and one whose null title the measures table rejects
BillComplete == CHOOSE b \in FederalBillPool : b.title = <<"A">>
BillNoTitle == CHOOSE b \in FederalBillPool : b.title = None
LawComplete == CHOOSE l \in FederalLawPool : "title" \in DOMAIN l

LifecycleFederalAnswers ==
    { [fetch_all |-> FALSE, congress |-> CURRENT_CONGRESS, bills |-> b,
       laws |-> Resp("ok", <<>>), house_votes |-> Resp("ok", <<>>)] :
         b \in {Resp("ok", <<BillComplete>>), Resp("ok", <<BillComplete, BillNoTitle>>),
                Resp("error", <<>>), Resp("null", <<>>)} }
    \cup
    { [fetch_all |-> TRUE, congress |-> CURRENT_CONGRESS, bills |-> a[1],
       laws |-> a[2], house_votes |-> Resp(a[2].kind, <<>>)] :
         a \in {<<Resp("ok", <<BillComplete>>), Resp("ok", <<LawComplete>>)>>,
                <<Resp("null", <<>>), Resp("ok", <<LawComplete>>)>>,
                <<Resp("error", <<>>), Resp("error", <<>>)>>} }

ArizonaComplete == CHOOSE b \in ArizonaBillPool : Get(b, "title", <<>>) = <<"E">>

LifecycleArizonaAnswers ==
    { [pages |-> <<p1, p2>>] :
        p1 \in {Resp("ok", <<ArizonaComplete>>), Resp("error", <<>>)},
        p2 \in {Resp("ok", <<>>), Resp("error", <<>>), Resp("null", <<>>)} }

ItemComplete == CHOOSE i \in PhoenixItemPool : i.EventItemTitle = <<"G">>

LifecyclePhoenixAnswers ==
    { [max_events |-> 10, events |-> e, calendar |-> c] :
        e \in {Resp("ok", << [event |-> PhoenixEvent, items |-> <<ItemComplete>>] >>),
               Resp("error", <<>>), Resp("object", <<>>)},
        c \in {Resp("ok", << [event |-> PhoenixEvent, items |-> <<>>] >>),
               Resp("error", <<>>)} }

AnswersOf(name) ==
    CASE name = "congress" -> LifecycleFederalAnswers
      [] name = "arizona" -> LifecycleArizonaAnswers
      [] name = "phoenix_legistar" -> LifecyclePhoenixAnswers
      [] OTHER -> {}

\* the connectors table holds the federal connector, the Arizona connector
\* enabled or disabled, and the Phoenix connector or not yet
InitLifecycle ==
    /\ measures = {} /\ measureSources = {} /\ runs = {}
    /\ officials = {} /\ voteEvents = {} /\ officialVotes = {}
    /\ userVotes = {} /\ userOfficials = {} /\ userProfiles = {}
    /\ matchResults = {} /\ cache = <<>> /\ probe = <<>>
    /\ \E az \in BOOLEAN, phx \in BOOLEAN :
          connectors = {NewConnector(1, "congress", TRUE), NewConnector(2, "arizona", az)}
                          \cup (IF phx THEN {NewConnector(3, "phoenix_legistar", TRUE)}
                                ELSE {})
    /\ workers = [w \in Workers |-> IdleWorker]
    /\ nextId = 4
    /\ hist = [op |-> "init", n |-> 0, name |-> "", status |-> 0, run_id |-> 0,
               fetch_failed |-> FALSE, stored |-> FALSE, others |-> 0]

NextLifecycle ==
    \/ \E w \in Workers : \E name \in ConnectorNames : StartRun(w, name)
    \/ \E w \in Workers : \E f \in AnswersOf(workers[w].name) : CompleteRun(w, f)
    \/ \E name \in ConnectorNames : TriggerIngestion(name)

SpecLifecycle == InitLifecycle /\ [][NextLifecycle]_vars

\* a started task runs to its end: the worker executes it
SpecLifecycleFair ==
    SpecLifecycle /\ \A w \in Workers :
                        WF_vars(\E f \in AnswersOf(workers[w].name) : CompleteRun(w, f))

-----------------------------------------------------------------------------
(* Properties of the run lifecycle                                         *)

\* C11: at no time are two ingestion runs of one connector name in progress:
\* the committed rows in "running" state and the runs the workers execute
\* are together at most one per name.
C11_NoConcurrentRuns ==
    \A name \in ConnectorNames :
        Cardinality(WorkersOn(name)) + Cardinality(RunningRows(name)) <= 1

\* the identifiers a run row can have in one behaviour
RunIds == 4..(4 + 2 * MaxInvocations)

\* C12: every committed run row in "running" state eventually becomes
\* "succeeded" or "failed" with its finish timestamp set.
C12_RunsFinish ==
    \A i \in RunIds :
        (\E r \in runs : r.id = i /\ r.status = "running")
          ~> (\E r \in runs : r.id = i /\ r.status \in {"succeeded", "failed"}
                                /\ r.finished)

\* C15: a run whose fetches all failed (network failure or HTTP error) is
\* stored as a failed run with a non-empty error message.
C15_FetchFailureRecorded ==
    (hist.op = "run" /\ hist.fetch_failed)
      => \E r \in runs : /\ r.id = hist.run_id
                         /\ r.status = "failed"
                         /\ r.error # None /\ r.error # <<>>

\* C19: a run row that is committed finished is the row of a run a worker
\* was executing (it was "running" in that session): its status is succeeded
\* or failed, finished_at and the full stats object are set with it, the
\* new_measures of the stats is the number of measures the same commit
\* added, a failed row has its error text and a succeeded one none; and a
\* row that has left "running" is never changed or removed.
C19_RunRecordLifecycle ==
    [][/\ \A r \in runs : r.status # "running" => r \in runs'
       /\ \A r \in runs' \ runs :
             \/ r.status = "running" /\ ~r.finished /\ r.error = None
             \/ /\ r.status \in {"succeeded", "failed"}
                /\ r.finished
                /\ \A q \in runs : q.id # r.id
                /\ \E w \in Workers : /\ workers[w].pc = "started"
                                      /\ workers[w].run_id = r.id
                                      /\ workers[w].name = r.connector
                                      /\ workers'[w].pc = "idle"
                /\ DOMAIN r.stats = DOMAIN NewStatsOf(r.connector)
                /\ r.stats.new_measures = Cardinality(measures') - Cardinality(measures)
                /\ (r.status = "failed") = (r.error # None)
                /\ r.error # <<>>]_vars

\* a failed run that had stored a measure before it was aborted is in the
\* table, and a later run has been committed beside it
C19_Witness ==
    /\ hist.op = "run" /\ hist.stored
    /\ \E r \in runs : /\ r.status = "failed" /\ r.stats.new_measures = 1
                       /\ r.error = E_no_len /\ r.id # hist.run_id
    /\ \E r \in runs : r.id = hist.run_id /\ r.status = "succeeded"

-----------------------------------------------------------------------------
(* Roll-call ingestion re-run over the same documents while the catalogue  *)
(* of measures and officials grows between the runs                        *)

\* upsert_bill of a bill the catalogue does not hold: the federal connector
\* adds its Measure between two roll-call ingestions
CatalogueAddsMeasure(bill) ==
    /\ FederalMapBillToMeasure(bill).canonical_key
         \notin {m.canonical_key : m \in measures}
    /\ measures' = InsertAll(measures, nextId, <<bill>>)
    /\ nextId' = nextId + 1
    /\ UNCHANGED <<measureSources, runs, officials, voteEvents, officialVotes,
                   userVotes, userOfficials, userProfiles, matchResults, cache, hist,
                   probe, connectors, workers>>

\* db.add(official) of _upsert_official, and the row of a representative
\* with the bioguide_id on file: an Official joins the catalogue between two
\* roll-call ingestions
CatalogueAddsOfficial(official) ==
    /\ \A o \in officials : o.id # official.id /\ o.external_id # official.external_id
    /\ officials' = officials \cup {official}
    /\ UNCHANGED <<measures, measureSources, runs, voteEvents, officialVotes,
                   userVotes, userOfficials, userProfiles, matchResults, cache, nextId,
                   hist, probe, connectors, workers>>

RetryHouseDocs ==
    {d \in HouseDocPool : ~d.malformed /\ d.vote_result \in {<<"P","a","s","s","e","d">>, <<"F","a","i","l","e","d">>}}

RetrySenateDocs ==
    {d \in SenateDocPool :
        ~d.malformed /\ d.document_name \in {<<"S",".","J",".","R","e","s","."," ","5">>, <<"H",".","R","."," ","5">>}}

RetryInputs(pool) ==
    { [congress |-> CURRENT_CONGRESS, session |-> 1, responses |-> r] :
        r \in BoundedSeq({[status |-> 200, doc |-> d] : d \in pool}, MaxDocs) \ {<<>>} }

\* the bills the connector can add: H.R. 5, H.Res. 5 and S.J.Res. 5
RetryBills ==
    { [type |-> t, number |-> <<"5">>, congress |-> CURRENT_CONGRESS,
       title |-> <<"V">>, latestAction |-> T_introduced] :
        t \in {<<"H","R">>, <<"H","R","E","S">>, <<"S","J","R","E","S">>} }

RetryOfficials == {Rep2, Sen1}

\* the catalogue holds no bill, S. 5, or S. 5 and H.R. 5; it holds one
\* representative and perhaps the others
InitRetry ==
    /\ measures \in {{}, {m \in RollCatalogue : m.id = 2}, RollCatalogue}
    /\ measureSources = {} /\ runs = {}
    /\ connectors = {} /\ workers = <<>>
    /\ officials \in {{Rep1}, {Rep1, Rep2, Sen1Known}}
    /\ voteEvents = {} /\ officialVotes = {}
    /\ userVotes = {} /\ userOfficials = {} /\ userProfiles = {}
    /\ matchResults = {}
    /\ cache = <<>> /\ nextId = 21
    /\ hist = [op |-> "init", args |-> <<>>, committed |-> FALSE, n |-> 0]
    /\ probe = <<>>

NextRetry ==
    \/ \E inp \in RetryInputs(RetryHouseDocs) : IngestHouseVotes(inp)
    \/ \E inp \in RetryInputs(RetrySenateDocs) : IngestSenateVotes(inp)
    \/ \E bill \in RetryBills : CatalogueAddsMeasure(bill)
    \/ \E official \in RetryOfficials : CatalogueAddsOfficial(official)

SpecRetry == InitRetry /\ [][NextRetry]_vars

\* the officials a legislator entry of a document resolves to: by bioguide
\* id in the House, by LIS id or by last name and state in the Senate
ResolvesTo(op, offs, entry) ==
    IF op = "house"
    THEN {o \in offs : ~Falsy(o.bioguide_id) /\ o.bioguide_id = entry.name_id}
    ELSE {o \in offs :
            /\ o.chamber = "us_senate"
            /\ \/ (~Falsy(o.lis_member_id)
                     /\ o.lis_member_id = Strip(entry.lis_member_id))
               \/ SenatorKey(o) = MemberKey(entry)}

\* the legislator entries of a document
EntriesOf(op, doc) ==
    IF op = "house" THEN {doc.votes[i] : i \in 1..Len(doc.votes)}
    ELSE {doc.members[i] : i \in 1..Len(doc.members)}

\* C13: an ingestion that repeats a committed ingestion of the same
\* documents leaves, for every stored document, an OfficialVote for every
\* legislator of the document who resolves to an Official of the catalogue
\* the run reads, also when the Official joined the catalogue between the
\* two runs.
C13_LegislatorRetried ==
    [][(hist'.n # hist.n /\ hist'.op \in RollOps /\ hist'.repeat /\ hist'.committed) =>
        \A n \in 1..Len(hist'.args.responses) :
            \A e \in voteEvents' :
                e.external_id = ExternalIdOf(hist'.op, hist'.args, n) =>
                    \A entry \in EntriesOf(hist'.op, hist'.args.responses[n].doc) :
                        \A o \in ResolvesTo(hist'.op, officials, entry) :
                            \E v \in officialVotes' :
                                v.vote_event_id = e.id /\ v.official_id = o.id]_vars

\* the Measure of the bill a document's citation names
NamedMeasure(ms, inp, n) ==
    {m \in ms : m.canonical_key =
                  RollCallCanonicalKey(inp.congress,
                                       inp.responses[n].doc.names.bill_type,
                                       inp.responses[n].doc.names.bill_number)}

\* C14: an ingestion that repeats a committed ingestion of the same
\* documents stores, for every document that has no VoteEvent yet and whose
\* citation names a Measure of the catalogue as it is now, the VoteEvent of
\* that Measure with the OfficialVotes of the legislators who resolve.
C14_DiscardedDocumentRetried ==
    [][(hist'.n # hist.n /\ hist'.op \in RollOps /\ hist'.repeat /\ hist'.committed) =>
        \A n \in 1..Len(hist'.args.responses) :
            \A m \in NamedMeasure(measures, hist'.args, n) :
                (\A e \in voteEvents :
                    e.external_id # ExternalIdOf(hist'.op, hist'.args, n))
                => \E e \in voteEvents' :
                      /\ e.external_id = ExternalIdOf(hist'.op, hist'.args, n)
                      /\ e.measure_id = m.id
                      /\ \A entry \in EntriesOf(hist'.op, hist'.args.responses[n].doc) :
                            \A o \in ResolvesTo(hist'.op, officials, entry) :
                                \E v \in officialVotes' :
                                    v.vote_event_id = e.id /\ v.official_id = o.id]_vars


-----------------------------------------------------------------------------
(* Errors of the match computation                                         *)

\* measure_id has nothing to score: no such measure, no vote event, or no
\* user vote
NothingToScore(measure_id) ==
    \/ ~\E m \in measures : m.id = measure_id
    \/ ~\E e \in voteEvents : e.measure_id = measure_id
    \/ ~\E uv \in userVotes : uv.measure_id = measure_id

\* C16: a match computation with nothing to score returns 0 and does not
\* raise, and a computation whose commit fails raises to its caller instead
\* of returning a count.
C16_PersistenceFailurePropagated ==
    hist.op = "compute" =>
        /\ NothingToScore(hist.measure_id) => (~hist.raised /\ hist.returned = 0)
        /\ hist.commit_failed => hist.raised


-----------------------------------------------------------------------------
(* The endpoints without Redis                                             *)

\* C17: while Redis is unavailable no call changes the cache, and a read of
\* the dashboard or of the representatives list answers 200, reports no
\* cache hit and returns what the computation from the tables gives.
C17_CacheUnavailable ==
    [][~cache.up =>
        /\ cache' = cache
        /\ hist'.op \in ReadOps =>
              /\ hist'.status = 200
              /\ ~hist'.from_cache
              /\ \E u \in CacheUsers :
                    hist'.resp =
                       IF hist'.op = "get_dashboard"
                       THEN DashboardResponse(userVotes, measures, u)
                       ELSE RepresentativesResponse(userProfiles, officials,
                                                    userOfficials, userVotes,
                                                    voteEvents, officialVotes, u).resp]_vars

\* without Redis, the representatives list is read after the user's
\* officials were refreshed and a vote was cast, and is not empty
C17_Witness ==
    /\ ~cache.up /\ cache.entries = {}
    /\ hist.op = "get_representatives"
    /\ hist.epoch >= 2
    /\ userVotes # {}
    /\ \E item \in hist.resp.representatives : item.votes_compared > 0


-----------------------------------------------------------------------------
(* The join key of the federal adapter and of the roll-call ingestor       *)

CiteCongresses == {CURRENT_CONGRESS - 1, CURRENT_CONGRESS}

\* the key _map_bill_to_measure stores for bill (congress, code, number) is
\* the key _match_bill_to_measure builds for the same bill
SameKeyFormat ==
    \A congress \in CiteCongresses, i \in 1..Len(BillTypeCodes), n \in CitationNumbers :
        FederalMapBillToMeasure([type |-> Upper(BillTypeCodes[i]), number |-> n,
                                 congress |-> congress, title |-> <<"T">>,
                                 latestAction |-> T_introduced]).canonical_key
          = RollCallCanonicalKey(congress, BillTypeCodes[i], n)

\* C18: for every congress, type code and number the federal adapter's
\* canonical_key equals the key the roll-call ingestor builds for that bill,
\* and a citation of a tracked bill resolves to the Measure stored under
\* that bill's key.
C18_CitationFindsMeasure ==
    /\ SameKeyFormat
    /\ (probe.stage = "resolved" /\ probe.citation.names # NamesNoBill) =>
          /\ ~probe.match.raised
          /\ probe.match.found
          /\ \E m \in measures :
                /\ m.id = probe.match.measure_id
                /\ m.canonical_key =
                      FederalCanonicalKey(CURRENT_CONGRESS,
                                          probe.citation.names.bill_type,
                                          probe.citation.names.bill_number)


-----------------------------------------------------------------------------
(* The status mapping of the three adapters over action texts              *)

CanonicalStatuses ==
    {"introduced", "scheduled", "in_committee", "passed", "failed", "tabled",
     "withdrawn", "unknown"}

\* the if/elif chain of each _map_status as a table: the keywords of a
\* branch and the status it returns, in the order of the branches
FederalStatusRules ==
    << [keywords |-> {T_became_public_law, T_signed_by_president}, status |-> "passed"],
       [keywords |-> {T_passed, T_agreed_to}, status |-> "passed"],
       [keywords |-> {T_failed, T_rejected}, status |-> "failed"],
       [keywords |-> {T_referred_to, T_committee}, status |-> "in_committee"],
       [keywords |-> {T_introduced, T_sponsor}, status |-> "introduced"],
       [keywords |-> {T_scheduled, T_calendar}, status |-> "scheduled"],
       [keywords |-> {T_tabled}, status |-> "tabled"],
       [keywords |-> {T_withdrawn}, status |-> "withdrawn"] >>

ArizonaStatusRules ==
    << [keywords |-> {T_passed, T_signed}, status |-> "passed"],
       [keywords |-> {T_failed, T_vetoed}, status |-> "failed"],
       [keywords |-> {T_committee}, status |-> "in_committee"],
       [keywords |-> {T_introduced, T_read}, status |-> "introduced"],
       [keywords |-> {T_calendar, T_scheduled}, status |-> "scheduled"],
       [keywords |-> {T_tabled, T_held}, status |-> "tabled"],
       [keywords |-> {T_withdrawn}, status |-> "withdrawn"] >>

PhoenixStatusRules ==
    << [keywords |-> {T_approved, T_passed, T_adopted}, status |-> "passed"],
       [keywords |-> {T_denied, T_rejected, T_failed}, status |-> "failed"],
       [keywords |-> {T_tabled, T_continued, T_postponed}, status |-> "tabled"],
       [keywords |-> {T_withdrawn}, status |-> "withdrawn"] >>

Adapters == {"congress", "arizona", "phoenix_legistar"}

StatusRulesOf(adapter) ==
    CASE adapter = "congress" -> FederalStatusRules
      [] adapter = "arizona" -> ArizonaStatusRules
      [] OTHER -> PhoenixStatusRules

\* the adapter's _map_status
MapStatusOf(adapter, text) ==
    CASE adapter = "congress" -> FederalMapStatus(text)
      [] adapter = "arizona" -> ArizonaMapStatus(text)
      [] OTHER -> PhoenixMapStatus(text)

KeywordsOf(rules) == UNION {rules[i].keywords : i \in 1..Len(rules)}

\* every keyword of the three adapters
StatusWords ==
    KeywordsOf(FederalStatusRules) \cup KeywordsOf(ArizonaStatusRules)
        \cup KeywordsOf(PhoenixStatusRules)

\* action texts: nothing, texts without a keyword, one keyword, two keywords,
\* in lower and in upper case
ActionTexts ==
    {ApplyCase(t, cs) :
        t \in {<<>>, <<"i","n","f","o","r","m","a","t","i","o","n"," ","o","n","l","y">>, <<"h","e","a","r","i","n","g">>}
                \cup StatusWords
                \cup {a \o <<" ">> \o b : a \in StatusWords, b \in StatusWords},
        cs \in {"lower", "upper"}}

InitStatus ==
    /\ measures = {} /\ measureSources = {} /\ runs = {}
    /\ connectors = {} /\ workers = <<>>
    /\ officials = {} /\ voteEvents = {} /\ officialVotes = {}
    /\ userVotes = {} /\ userOfficials = {} /\ userProfiles = {}
    /\ matchResults = {}
    /\ cache = <<>> /\ nextId = 1
    /\ hist = NoHist
    /\ \E adapter \in Adapters, text \in ActionTexts :
          probe = [stage |-> "read", adapter |-> adapter, text |-> text]

\* the adapter maps the action text of a record it fetched
MapStatus ==
    /\ probe.stage = "read"
    /\ probe' = [stage |-> "mapped", adapter |-> probe.adapter, text |-> probe.text,
                 status |-> MapStatusOf(probe.adapter, probe.text)]
    /\ UNCHANGED <<measures, measureSources, runs, officials, voteEvents, officialVotes,
                   userVotes, userOfficials, userProfiles, matchResults, cache, nextId, hist,
                   connectors, workers>>

NextStatus == MapStatus

SpecStatus == InitStatus /\ [][NextStatus]_vars

\* the status of the first rule of the table with a keyword in text a, and
\* unknown when there is none
RECURSIVE FirstRule(_, _, _)
FirstRule(rules, a, i) ==
    IF i > Len(rules) THEN "unknown"
    ELSE IF \E k \in rules[i].keywords : Contains(a, k) THEN rules[i].status
    ELSE FirstRule(rules, a, i + 1)

HasKeywordOf(rules, a, status) ==
    \E i \in 1..Len(rules) :
        rules[i].status = status /\ \E k \in rules[i].keywords : Contains(a, k)

\* C20: an adapter maps every action text to one of the eight statuses, the
\* status of the first rule of its table that matches; a text with
\* "committee" and "scheduled" only maps to in_committee, a text with a
\* passed keyword and a failed keyword maps to passed, and a text that
\* matches no rule, the empty text too, maps to unknown.
C20_StatusMapping ==
    probe.stage = "mapped" =>
        LET rules == StatusRulesOf(probe.adapter)
            a == Lower(probe.text)
        IN  /\ probe.status \in CanonicalStatuses
            /\ probe.status = FirstRule(rules, a, 1)
            /\ a = T_committee \o <<" ">> \o T_scheduled
                  => probe.status = "in_committee"
            /\ (HasKeywordOf(rules, a, "passed") /\ HasKeywordOf(rules, a, "failed"))
                  => probe.status = "passed"
            /\ (\A k \in KeywordsOf(rules) : ~Contains(a, k))
                  => probe.status = "unknown"


-----------------------------------------------------------------------------
(* Atomicity and keys of the stored roll-call votes                        *)

\* C21: a VoteEvent that an ingestion adds for one of its documents comes
\* with the OfficialVote of every legislator of the document who resolves to
\* an Official: a document whose votes could not all be written leaves no
\* VoteEvent with its idempotency key.
C21_DocumentAllOrNothing ==
    [][hist'.op \in RollOps =>
        \A n \in DocNumbers(hist'.args) :
            \A e \in voteEvents' \ voteEvents :
                e.external_id = ExternalIdOf(hist'.op, hist'.args, n) =>
                    \A entry \in EntriesOf(hist'.op, hist'.args.responses[n].doc) :
                        ResolvesTo(hist'.op, officials, entry) # {} =>
                            \E o \in ResolvesTo(hist'.op, officials, entry) :
                                \E v \in officialVotes' :
                                    v.vote_event_id = e.id /\ v.official_id = o.id]_vars

\* the flush of a document's votes failed after the votes of an earlier
\* ingestion were committed, and no VoteEvent was added
C21_Witness ==
    /\ hist.op \in RollOps /\ hist.n = 2
    /\ ~hist.committed
    /\ hist.stats.official_votes_created >= 2
    /\ hist.stats.errors >= 1
    /\ Cardinality(voteEvents) = 1 /\ officialVotes # {}

\* C22: the store holds at most one OfficialVote per vote event and
\* official.
C22_OneVotePerOfficial ==
    \A v1, v2 \in officialVotes :
        (v1.vote_event_id = v2.vote_event_id /\ v1.official_id = v2.official_id)
            => v1 = v2

\* one legislator listed twice
ListedTwice(op, doc) ==
    IF op = "house"
    THEN \E i, j \in 1..Len(doc.votes) : i # j /\ doc.votes[i].name_id = doc.votes[j].name_id
    ELSE \E i, j \in 1..Len(doc.members) :
            i # j /\ MemberKey(doc.members[i]) = MemberKey(doc.members[j])

\* while votes are stored, the flush failed in an ingestion of a document
\* that lists one legislator twice, or two members of one name and state
C22_Witness ==
    /\ hist.op \in RollOps /\ hist.n = 2
    /\ ~hist.committed
    /\ officialVotes # {}
    /\ hist.stats.official_votes_created >= 2
    /\ \E n \in DocNumbers(hist.args) : ListedTwice(hist.op, hist.args.responses[n].doc)


-----------------------------------------------------------------------------
(* The fetch loop of ingest_house_votes and ingest_senate_votes, one        *)
(* iteration at a time. probe is the loop's state: the sequence number, the *)
(* counter consecutive_404s, stats.errors and stats.votes_processed, where  *)
(* the loop stands (pc), and whether the chamber's site still answers.      *)
(* not_found counts the 404 answers since the last document was received.   *)

MaxRollNum == 6     \* sequence numbers told apart; later ones fold onto the last two
MaxLoopStat == 2    \* stats counters are kept up to this value

Fold(n, max) == IF n < max THEN n + 1 ELSE max - 1
UpTo(n, max) == IF n < max THEN n + 1 ELSE max

\* status 0 is a fetch that raised: httpx.TimeoutException, httpx.ConnectError
FetchStatuses == {200, 404, 500, 0}

\* one iteration of "while consecutive_404s < 5": the site answers status;
\* doc_raises is a document whose processing raises
FetchNext(status, doc_raises) ==
    /\ probe.pc = "loop"
    /\ probe.upstream = "hung" => status = 0
    /\ LET exit(c) == IF c < MaxConsecutive404 THEN "loop" ELSE "done" IN
       probe' =
         CASE status = 404 ->
                [probe EXCEPT !.roll_num = Fold(@, MaxRollNum),
                              !.consecutive_404s = @ + 1,
                              !.not_found = @ + 1,
                              !.pc = exit(probe.consecutive_404s + 1)]
           [] status = 200 ->
                [probe EXCEPT !.roll_num = Fold(@, MaxRollNum),
                              !.consecutive_404s = 0,
                              !.not_found = 0,
                              !.errors = IF doc_raises THEN UpTo(@, MaxLoopStat) ELSE @,
                              !.votes_processed =
                                  IF doc_raises THEN @ ELSE UpTo(@, MaxLoopStat)]
           [] status = 0 ->
                [probe EXCEPT !.roll_num = Fold(@, MaxRollNum),
                              !.errors = UpTo(@, MaxLoopStat)]
           [] OTHER ->      \* raise_for_status(): except httpx.HTTPStatusError
                [probe EXCEPT !.roll_num = Fold(@, MaxRollNum),
                              !.consecutive_404s = @ + 1,
                              !.pc = exit(probe.consecutive_404s + 1)]
    /\ UNCHANGED <<measures, measureSources, runs, officials, voteEvents, officialVotes,
                   userVotes, userOfficials, userProfiles, matchResults, cache, nextId, hist,
                   connectors, workers>>

\* the chamber's site stops answering: from now on every fetch times out
UpstreamHangs ==
    /\ probe.pc = "loop" /\ probe.upstream = "up"
    /\ probe' = [probe EXCEPT !.upstream = "hung"]
    /\ UNCHANGED <<measures, measureSources, runs, officials, voteEvents, officialVotes,
                   userVotes, userOfficials, userProfiles, matchResults, cache, nextId, hist,
                   connectors, workers>>

InitLoop ==
    /\ measures = {} /\ measureSources = {} /\ runs = {}
    /\ connectors = {} /\ workers = <<>>
    /\ officials = {} /\ voteEvents = {} /\ officialVotes = {}
    /\ userVotes = {} /\ userOfficials = {} /\ userProfiles = {}
    /\ matchResults = {}
    /\ cache = <<>> /\ nextId = 1
    /\ hist = NoHist
    /\ \E chamber \in RollOps :
          probe = [chamber |-> chamber, pc |-> "loop", upstream |-> "up",
                   roll_num |-> 1, consecutive_404s |-> 0, not_found |-> 0,
                   errors |-> 0, votes_processed |-> 0]

NextLoop ==
    \/ \E status \in FetchStatuses, doc_raises \in BOOLEAN : FetchNext(status, doc_raises)
    \/ UpstreamHangs

SpecLoop == InitLoop /\ [][NextLoop]_vars

\* the event loop keeps running the coroutine, and every fetch returns or
\* raises within the client's timeout of 30 seconds
SpecLoopFair ==
    SpecLoop /\ WF_vars(\E status \in FetchStatuses, doc_raises \in BOOLEAN :
                            FetchNext(status, doc_raises))

\* C23: the loop has stopped exactly when five 404 answers have come since
\* the last document was received; answers other than 404 do not count.
C23_StopsAfterFiveNotFound ==
    (probe.pc = "done") <=> (probe.not_found = MaxConsecutive404)

\* C24: once the chamber's site has stopped answering, the loop ends.
C24_HungUpstreamEndsLoop ==
    (probe.upstream = "hung") ~> (probe.pc = "done")


-----------------------------------------------------------------------------
(* The per-measure match and the aggregate alignment of one official       *)

\* C25: after a match computation, for every official in the breakdown of a
\* stored match result, the official's vote is in the denominator of the
\* representatives list's alignment exactly when the breakdown counts it,
\* it is a match there exactly when the breakdown marks it a match, and an
\* empty denominator gives a null alignment.
C25_SameComparability ==
    (hist.op = "compute" /\ hist.returned > 0) =>
        \A mr \in matchResults :
            \A entry \in mr.breakdown.officials :
                \A o \in officials :
                    entry.official_id = NatToStr(o.id) =>
                        LET a == Alignment(userVotes, voteEvents, officialVotes,
                                           mr.user_id, o.id)
                        IN  /\ ("note" \notin DOMAIN entry) <=> (a.votes_compared = 1)
                            /\ entry.matches_user <=>
                                  (/\ ~a.alignment_percentage.null
                                   /\ a.alignment_percentage.tenths = 1000)
                            /\ a.votes_compared = 0 => a.alignment_percentage.null


-----------------------------------------------------------------------------
(* services/summarizer.py: summarize_and_update between the runs of the     *)
(* federal connector                                                        *)

\* summarize_and_update; summary is what summarize_measure gave (None when
\* it failed), topics what extract_topics gives
SummarizeAndUpdate(measure_id, summary, topics) ==
    LET found == {m \in measures : m.id = measure_id} IN
    /\ IF found = {}
       THEN /\ UNCHANGED measures
            /\ hist' = [op |-> "summarize", args |-> measure_id, returned |-> FALSE,
                        stats |-> <<>>, repeat |-> FALSE]
       ELSE LET measure == CHOOSE m \in found : TRUE
                new_topics == IF measure.topic_tags = <<>> THEN topics ELSE <<>>
            IN  IF ~Falsy(measure.summary_short)
                THEN /\ UNCHANGED measures
                     /\ hist' = [op |-> "summarize", args |-> measure_id,
                                 returned |-> TRUE, stats |-> <<>>, repeat |-> FALSE]
                ELSE IF Falsy(summary)
                THEN /\ UNCHANGED measures
                     /\ hist' = [op |-> "summarize", args |-> measure_id,
                                 returned |-> FALSE, stats |-> <<>>, repeat |-> FALSE]
                ELSE /\ measures' = (measures \ {measure}) \cup
                            {[measure EXCEPT !.summary_short = summary,
                                             !.topic_tags = IF new_topics # <<>>
                                                            THEN new_topics ELSE @]}
                     /\ hist' = [op |-> "summarize", args |-> measure_id,
                                 returned |-> TRUE, stats |-> <<>>, repeat |-> FALSE]
    /\ UNCHANGED <<measureSources, runs, officials, voteEvents, officialVotes,
                   userVotes, userOfficials, userProfiles, matchResults, cache, nextId,
                   probe, connectors, workers>>

\* the default mode of the federal connector
FrameInputs == {inp \in FederalInputs : ~inp.fetch_all}

SummaryTexts == {None, <<"A"," ","b","i","l","l",".">>}
TopicLists == {<<>>, << <<"T","a","x","a","t","i","o","n">> >>}

InitFrame == EmptyStore

NextFrame ==
    \/ \E inp \in FrameInputs : FederalRun(inp)
    \/ \E measure_id \in 1..3, summary \in SummaryTexts, topics \in TopicLists :
          SummarizeAndUpdate(measure_id, summary, topics)

SpecFrame == InitFrame /\ [][NextFrame]_vars

\* C26: a run of the federal connector leaves no field of a stored Measure
\* null that was not null, and leaves the topic tags and the summary stored
\* on a Measure as they are: the records of the bill list carry no topics.
C26_UpsertKeepsStoredFields ==
    [][hist'.op = "federal" =>
        \A m \in measures :
            \A m2 \in measures' :
                m2.id = m.id =>
                    /\ \A k \in DOMAIN m \ (NeverNoneKeys \cup {"id"}) :
                          m[k] # None => m2[k] # None
                    /\ m2.summary_short = m.summary_short
                    /\ m.topic_tags # <<>> => m2.topic_tags = m.topic_tags]_vars


\* the members of document n whose vote the OfficialVote v can be: the vote
\* cast maps to v.vote and the Official of v had, before the ingestion, no
\* lis_member_id or the member's; a member without identifier fits any
MembersFitting(offs, doc, v) ==
    {k \in 1..Len(doc.members) :
        /\ VoteMap(Lower(Strip(doc.members[k].vote_cast))) = v.vote
        /\ \E o \in offs :
              /\ o.id = v.official_id
              /\ \/ Falsy(o.lis_member_id)
                 \/ Strip(doc.members[k].lis_member_id) = <<>>
                 \/ o.lis_member_id = Strip(doc.members[k].lis_member_id)}

\* C28: in a Senate ingestion every OfficialVote stored for a document is
\* the vote of a member of that document whose identifier is the
\* lis_member_id of the Official, or of an Official that had none.
C28_FallbackRespectsLisId ==
    [][hist'.op = "senate" =>
        \A n \in DocNumbers(hist'.args) :
            \A e \in voteEvents' \ voteEvents :
                e.external_id = SenateExternalId(hist'.args.congress, hist'.args.session, n)
                => \A v \in VotesOf(officialVotes', e) :
                      MembersFitting(officials, hist'.args.responses[n].doc, v) # {}]_vars


-----------------------------------------------------------------------------
(* The match engine over a measure the House voted on twice: each of the    *)
(* two representatives may have a row in each of the two vote events       *)

OrderVoteEvents ==
    {NewVoteEvent(21, 1, "U.S. House", HouseExternalId(CURRENT_CONGRESS, 1, 1), None, "failed"),
     NewVoteEvent(23, 1, "U.S. House", HouseExternalId(CURRENT_CONGRESS, 1, 2), None, "passed")}

OrderOfficials == {Rep1, Rep2}

OrderVoteValues == {"yea", "nay", "absent"}

InitOrder ==
    /\ measures = RollCatalogue
    /\ measureSources = {} /\ runs = {}
    /\ connectors = {} /\ workers = <<>>
    /\ officials = OrderOfficials
    /\ voteEvents = OrderVoteEvents
    /\ \E recorded \in [OrderOfficials \X {21, 23} -> OrderVoteValues \cup {"no row"}] :
          officialVotes = {NewOfficialVote(x[2], x[1].id, recorded[x]) :
                             x \in {y \in OrderOfficials \X {21, 23} : recorded[y] # "no row"}}
    /\ \E v \in {"yes", "no"} : userVotes = {NewUserVote(33, 31, 1, v, 1)}
    /\ \E active \in [OrderOfficials -> BOOLEAN] :
          userOfficials = {NewUserOfficial(31, o.id, active[o]) : o \in OrderOfficials}
    /\ userProfiles = {} /\ matchResults = {}
    /\ cache = <<>> /\ nextId = 41
    /\ hist = [op |-> "init", measure_id |-> 0, returned |-> 0, raised |-> FALSE,
               commit_failed |-> FALSE, n |-> 0]
    /\ probe = <<>>

SpecOrder == InitOrder /\ [][NextMatch]_vars

\* the match_results table that compute_matches_for_measure leaves when the
\* OfficialVote rows are read in the order that gives official_vote_map
MatchResultsUnder(measure_id, official_vote_map) ==
    ComputeMatchesResult(measures, voteEvents, officialVotes, userVotes, officials,
                         userOfficials, matchResults, measure_id, official_vote_map,
                         FALSE).matchResults

\* C29: the match results that a computation for a measure stores are the
\* same for every order in which the OfficialVote rows of the measure's
\* vote events can be read.
C29_RowOrderIndependent ==
    [][(hist'.n # hist.n /\ ~hist'.commit_failed) =>
        \A official_vote_map \in
              OfficialVoteMaps(officialVotes,
                  {e.id : e \in {x \in voteEvents : x.measure_id = hist'.measure_id}}) :
            matchResults' = MatchResultsUnder(hist'.measure_id, official_vote_map)]_vars


-----------------------------------------------------------------------------
(* One swipe and one read of the representatives list of the same user,    *)
(* each suspended at its awaits: the swipe between its commit and its       *)
(* cache_delete, the read between cache_get, the queries and cache_set.     *)
(* probe is [swipe_pc, read_pc, resp, ttl]: where each request stands and   *)
(* the response the read computed.                                          *)

RaceUser == 31

RaceUserVotes ==
    { {}, {NewUserVote(33, RaceUser, 1, "yes", 1)}, {NewUserVote(33, RaceUser, 1, "no", 1)},
      {NewUserVote(33, RaceUser, 2, "yes", 1)} }

RaceStore ==
    <<measures, measureSources, runs, officials, voteEvents, officialVotes,
      userOfficials, userProfiles, matchResults, connectors, workers, hist>>

\* the response computed from the tables as they are now
CurrentRepresentatives ==
    RepresentativesResponse(userProfiles, officials, userOfficials, userVotes,
                            voteEvents, officialVotes, RaceUser)

InitRace ==
    /\ measures = CacheCatalogue
    /\ measureSources = {} /\ runs = {}
    /\ connectors = {} /\ workers = <<>>
    /\ officials = MatchOfficials
    /\ voteEvents = CacheVoteEvents
    /\ officialVotes = CacheOfficialVotes
    /\ userVotes \in RaceUserVotes
    /\ userOfficials = {NewUserOfficial(RaceUser, 11, TRUE), NewUserOfficial(RaceUser, 13, TRUE)}
    /\ userProfiles = {NewUserProfile(RaceUser)}
    /\ matchResults = {}
    /\ \E up \in BOOLEAN, warm \in BOOLEAN :
          cache = IF up /\ warm
                  THEN cache_set([up |-> TRUE, entries |-> {}], reps_key(RaceUser),
                                 CurrentRepresentatives.resp, CurrentRepresentatives.ttl)
                  ELSE [up |-> up, entries |-> {}]
    /\ nextId = 41
    /\ hist = [op |-> "init"]
    /\ probe = [swipe_pc |-> "start", read_pc |-> "start", resp |-> <<>>, ttl |-> 0]

\* swipe, up to "await db.commit()" and the refresh
SwipeCommit(measure_id, vote) ==
    /\ probe.swipe_pc = "start"
    /\ IF ~\E m \in measures : m.id = measure_id
       THEN /\ UNCHANGED <<userVotes, nextId>>
            /\ probe' = [probe EXCEPT !.swipe_pc = "done"]
       ELSE LET existing == {uv \in userVotes :
                               uv.user_id = RaceUser /\ uv.measure_id = measure_id}
            IN /\ IF existing # {}
                  THEN /\ userVotes' = {IF uv \in existing THEN [uv EXCEPT !.vote = vote]
                                        ELSE uv : uv \in userVotes}
                       /\ nextId' = nextId
                  ELSE /\ userVotes' = userVotes \cup
                             {NewUserVote(nextId, RaceUser, measure_id, vote, nextId)}
                       /\ nextId' = nextId + 1
               /\ probe' = [probe EXCEPT !.swipe_pc = "committed"]
    /\ UNCHANGED cache
    /\ UNCHANGED RaceStore

\* swipe: await cache_delete(reps_key(current_user.id)), then the response
SwipeInvalidate ==
    /\ probe.swipe_pc = "committed"
    /\ cache' = cache_delete(cache, reps_key(RaceUser))
    /\ probe' = [probe EXCEPT !.swipe_pc = "done"]
    /\ UNCHANGED <<userVotes, nextId>>
    /\ UNCHANGED RaceStore

\* get_representatives: cached = await cache_get(cache_key)
ReadCacheGet ==
    /\ probe.read_pc = "start"
    /\ probe' = IF CacheHit(cache, reps_key(RaceUser))
                THEN [probe EXCEPT !.read_pc = "done",
                                   !.resp = cache_get(cache, reps_key(RaceUser))]
                ELSE [probe EXCEPT !.read_pc = "miss"]
    /\ UNCHANGED <<userVotes, nextId, cache>>
    /\ UNCHANGED RaceStore

\* get_representatives: the queries for the profile, the officials and the
\* alignments, and the response built from them
ReadCompute ==
    /\ probe.read_pc = "miss"
    /\ probe' = [probe EXCEPT !.read_pc = "computed",
                              !.resp = CurrentRepresentatives.resp,
                              !.ttl = CurrentRepresentatives.ttl]
    /\ UNCHANGED <<userVotes, nextId, cache>>
    /\ UNCHANGED RaceStore

\* get_representatives: await cache_set(cache_key, resp.dict(), ttl), return
ReadCacheSet ==
    /\ probe.read_pc = "computed"
    /\ cache' = cache_set(cache, reps_key(RaceUser), probe.resp, probe.ttl)
    /\ probe' = [probe EXCEPT !.read_pc = "done"]
    /\ UNCHANGED <<userVotes, nextId>>
    /\ UNCHANGED RaceStore

NextRace ==
    \/ \E m \in 1..3, v \in {"yes", "no"} : SwipeCommit(m, v)
    \/ SwipeInvalidate
    \/ ReadCacheGet
    \/ ReadCompute
    \/ ReadCacheSet

SpecRace == InitRace /\ [][NextRace]_vars

\* C30: when the swipe and the read of the representatives list have both
\* finished, a response held under the user's representatives key is the
\* response the tables give now, not one computed from the votes as they
\* were before the swipe was committed.
C30_NoStaleCacheAfterRace ==
    (/\ probe.swipe_pc = "done" /\ probe.read_pc = "done"
     /\ CacheHit(cache, reps_key(RaceUser)))
        => cache_get(cache, reps_key(RaceUser)) = CurrentRepresentatives.resp


-----------------------------------------------------------------------------
(* Senate documents that appear on the site in any order: probe keeps the   *)
(* documents by sequence number (docs), the numbers published so far        *)
(* (avail) and the officials table before the first ingestion (offs0).      *)
(* Every ingestion is ingest_senate_votes over what is published.           *)

\* beside the documents of SenateDocPool, one that lists the second senator
\* of a last name and state alone
ArriveDocPool ==
    SenateDocPool \cup
    { SenateDoc(<<"S","."," ","5">>, Names(<<"s">>, <<"5">>), None, <<"P","a","s","s","e","d">>,
                << Member(<<"S","2">>, <<"L","e","e">>, <<"U","T">>, <<"N","a","y">>) >>) }

\* what the site answers when the numbers in avail are published
ArriveInput(docs, avail) ==
    [congress |-> CURRENT_CONGRESS, session |-> 1,
     responses |-> [n \in 1..MaxDocs |->
                       IF n \in avail THEN [status |-> 200, doc |-> docs[n]]
                       ELSE [status |-> 404]]]

\* the tables one ingestion can leave, over the row orders of the senators
ArriveOutcomes(s, ms, docs, avail) ==
    {EndSession(IngestSenateResult(s.events, s.votes, s.officials, ms, s.nextId,
                                   ArriveInput(docs, avail), maps)) :
        maps \in BuildSenateMaps(s.officials)}

InitArrive ==
    /\ measures = RollCatalogue
    /\ measureSources = {} /\ runs = {}
    /\ connectors = {} /\ workers = <<>>
    /\ officials \in OfficialTables
    /\ voteEvents = {} /\ officialVotes = {}
    /\ userVotes = {} /\ userOfficials = {} /\ userProfiles = {}
    /\ matchResults = {}
    /\ cache = <<>> /\ nextId = 21
    /\ hist = [op |-> "init", args |-> <<>>, committed |-> FALSE, n |-> 0]
    /\ \E docs \in [1..MaxDocs -> ArriveDocPool] :
          probe = [docs |-> docs, avail |-> {}, offs0 |-> officials]

\* the documents numbered in arrive are published, and the ingestion runs
IngestArrived(arrive) ==
    /\ arrive # {}
    /\ arrive \subseteq (1..MaxDocs) \ probe.avail
    /\ \E end \in ArriveOutcomes([events |-> voteEvents, votes |-> officialVotes,
                                  officials |-> officials, nextId |-> nextId],
                                 measures, probe.docs, probe.avail \cup arrive) :
          /\ voteEvents' = end.events
          /\ officialVotes' = end.votes
          /\ officials' = end.officials
          /\ nextId' = end.nextId
          /\ hist' = [op |-> "senate",
                      args |-> ArriveInput(probe.docs, probe.avail \cup arrive),
                      committed |-> Get(end, "ok", FALSE), n |-> hist.n + 1]
    /\ probe' = [probe EXCEPT !.avail = @ \cup arrive]
    /\ UNCHANGED <<measures, measureSources, runs, userVotes, userOfficials, userProfiles,
                   matchResults, cache, connectors, workers>>

NextArrive == \E arrive \in SUBSET (1..MaxDocs) : IngestArrived(arrive)

SpecArrive == InitArrive /\ [][NextArrive]_vars

\* the tables without the generated ids: the vote events by idempotency
\* key, the official votes by key and official, the officials as they are
TablesView(events, votes, offs) ==
    [events |-> {[e EXCEPT !.id = 0] : e \in events},
     votes |-> {[external_id |-> (CHOOSE e \in events : e.id = v.vote_event_id).external_id,
                 official_id |-> v.official_id, vote |-> v.vote] : v \in votes},
     officials |-> offs]

\* the tables after the documents were published and ingested one by one in
\* increasing sequence order, from number k on
RECURSIVE InOrderStores(_, _, _, _)
InOrderStores(stores, ms, docs, k) ==
    IF k > MaxDocs THEN stores
    ELSE InOrderStores(UNION {ArriveOutcomes(s, ms, docs, 1..k) : s \in stores},
                       ms, docs, k + 1)

\* in increasing order: one by one, or all in one ingestion
InOrderViews(offs0, ms, docs) ==
    LET s0 == [events |-> {}, votes |-> {}, officials |-> offs0, nextId |-> 21]
    IN {TablesView(s.events, s.votes, s.officials) :
          s \in InOrderStores({s0}, ms, docs, 1)
                  \cup ArriveOutcomes(s0, ms, docs, 1..MaxDocs)}

\* C27: when all documents are published and ingested, in whatever order
\* they appeared, the VoteEvents, the OfficialVotes and the lis_member_id of
\* the Officials are those that ingesting the documents in increasing
\* sequence order gives.
C27_ArrivalOrderIndependent ==
    probe.avail = 1..MaxDocs =>
        TablesView(voteEvents, officialVotes, officials)
            \in InOrderViews(probe.offs0, measures, probe.docs)

====
